---------------------------- MODULE Spec2Model ----------------------------
(***************************************************************************)
(* Model of http-proxy-listener.js: the WorkerPool registry (a Map from    *)
(* worker key to worker record, a key list sorted by upload_at and a       *)
(* round-robin index), the Firebase "value" subscription that syncs it,    *)
(* and the HTTP / upgrade handlers that dispatch to the next worker.       *)
(*                                                                         *)
(* Node runs every callback to completion on one event loop, so each       *)
(* callback is one action.  The JS Map keeps insertion order and           *)
(* Array.prototype.sort is stable, so the Map is a sequence of records in  *)
(* insertion order.  Indexes are 0-based as in the source; sequence        *)
(* positions are index + 1.                                                *)
(***************************************************************************)
EXTENDS Integers, Sequences, FiniteSets, Bags, TLC

\* ---------------------------------------------------------------- bounds
\* Date.now() ranges over 1..MaxTime.
MaxTime == 2
\* Length of the recorded window of consecutive getNextWorker() results.
MaxRun == 3
\* Requests that are being forwarded at the same time.
MaxReq == 2

\* ------------------------------------------------------------ JS values
\* undefined (a property that is missing from the pushed JSON)
NoVal == "<undefined>"
\* NaN, the result of Date.parse on text that is no date
NaN == -1
\* JS falsiness of a string-or-undefined value: undefined and "" are falsy
Falsy(x) == x \in {NoVal, ""}
\* a || b
OrElse(a, b) == IF Falsy(a) THEN b ELSE a

\* Worker keys, in the order Object.keys / Object.entries enumerate them
\* (the feed builds the pushed object in key order).
KeyOrder == <<"w1", "w2", "w3">>
Keys == {KeyOrder[i] : i \in 1..Len(KeyOrder)}

\* A raw upload_at as pushed by the feed: form is the JS type of the value
\* ("number", "string", "sv" for the {".sv":"timestamp"} placeholder,
\* "missing"); val is the number, or what Date.parse gives for the string.
RawNum(n) == [form |-> "number", val |-> n]
RawText(parsed) == [form |-> "string", val |-> parsed]
RawSv == [form |-> "sv", val |-> 0]
RawMissing == [form |-> "missing", val |-> 0]

Raw(u, at, v, r) == [url |-> u, upload_at |-> at, version |-> v, runner_by |-> r]

\* Raw worker data with a url, a numeric upload_at and no labels.
PlainRaw ==
  { Raw("http://h1", RawNum(1), NoVal, NoVal),
    Raw("http://h1", RawNum(2), NoVal, NoVal) }

\* The other shapes of raw worker data: another url with labels and a date
\* text, the upload_at forms that no date can be read from, and an empty or
\* missing url.
OddRaw ==
  { Raw("http://h2", RawText(1), "v1", "r1"),
    Raw("http://h1", RawText(NaN), NoVal, NoVal),
    Raw("http://h1", RawSv, NoVal, NoVal),
    Raw("http://h1", RawMissing, NoVal, NoVal),
    Raw("", RawNum(1), NoVal, NoVal),
    Raw(NoVal, RawNum(2), "v1", NoVal) }

RawPool == PlainRaw \cup OddRaw

\* snapshot.val(): null, or an object from keys to raw worker data.
NullVal == [isNull |-> TRUE, entries |-> <<>>]
ObjVal(f) == [isNull |-> FALSE, entries |-> f]

Objects ==
  UNION { [ks -> RawPool] : ks \in SUBSET Keys }

\* The pushed values: at most one entry of an object is taken from OddRaw.
Snapshots ==
  {NullVal} \cup
  { ObjVal(f) : f \in { g \in Objects :
        \A j, k \in DOMAIN g : g[j] \in OddRaw /\ g[k] \in OddRaw => j = k } }

\* The values pushed where the callback's input and diff are kept: the one
\* entry that is not plain is w1 without a url, w2 with the server-timestamp
\* placeholder, or w3 with another url, labels and a date text.
SyncOdd ==
  [ w1 |-> Raw("", RawNum(1), NoVal, NoVal),
    w2 |-> Raw("http://h1", RawSv, NoVal, NoVal),
    w3 |-> Raw("http://h2", RawText(1), "v1", "r1") ]

SyncSnapshots ==
  { v \in Snapshots :
      v.isNull \/ \A k \in DOMAIN v.entries : v.entries[k] \in PlainRaw \cup {SyncOdd[k]} }

\* The values pushed while requests are served: every entry is the first
\* plain one, or for w3 the one with another url and labels.
GwSnapshots ==
  { v \in SyncSnapshots :
      v.isNull \/ \A k \in DOMAIN v.entries :
                    v.entries[k] \in {Raw("http://h1", RawNum(1), NoVal, NoVal), SyncOdd.w3} }

\* The values pushed while requests are served and the callback's input is
\* kept: every entry is the first plain one, or for w1 the one without a url.
LifeSnapshots ==
  { v \in SyncSnapshots :
      v.isNull \/ \A k \in DOMAIN v.entries :
                    v.entries[k] \in {Raw("http://h1", RawNum(1), NoVal, NoVal), SyncOdd.w1} }

\* The values with a url and a numeric upload_at of 1..3 in every entry
NumericSnapshots ==
  {NullVal} \cup
  { ObjVal(f) : f \in UNION { [ks -> {Raw("http://h1", RawNum(n), NoVal, NoVal) : n \in 1..3}] :
                                ks \in SUBSET Keys } }

\* The values pushed to the second of two instances before the common one:
\* every entry is the first plain one
HistorySnapshots ==
  { v \in NumericSnapshots :
      v.isNull \/ \A k \in DOMAIN v.entries :
                    v.entries[k] = Raw("http://h1", RawNum(1), NoVal, NoVal) }

\* The last time value a Date can hold (8.64e15 ms), on the scale of the
\* model's time values; a larger number is no valid date.
LastDate == 8

\* Raw worker data whose numeric upload_at lies beyond the range of Date
\* (a finite number, such as a time in nanoseconds).
LateRaw == Raw("http://h1", RawNum(LastDate + 1), NoVal, NoVal)

\* The values pushed while health requests are served: every entry is the
\* first plain one, or for w1 the later plain one, for w2 the one with the
\* upload_at beyond the range of Date, for w3 the one with another url and
\* labels.
HealthOdd ==
  [ w1 |-> Raw("http://h1", RawNum(2), NoVal, NoVal),
    w2 |-> LateRaw,
    w3 |-> SyncOdd.w3 ]

HealthSnapshots ==
  {NullVal} \cup
  { ObjVal(f) : f \in { g \in UNION { [ks -> RawPool \cup {LateRaw}] : ks \in SUBSET Keys } :
        \A k \in DOMAIN g :
          g[k] \in {Raw("http://h1", RawNum(1), NoVal, NoVal), HealthOdd[k]} } }

\* req.url of the requests: the four health paths, a health path with a
\* query string, and another path
HealthPaths == {"/health", "/health/", "/nginx-health", "/nginx-health/"}
Paths == HealthPaths \cup {"/health?probe=1", "/work"}

\* req.headers["x-request-id"] of the requests
RequestIds == {NoVal, "rid-1"}

\* ------------------------------------------------------------- helpers
NullWorker == [key |-> "", url |-> "", upload_at |-> 0, version |-> "", runner_by |-> ""]

NoDiff == [added |-> <<>>, removed |-> <<>>, updated |-> <<>>]

SeqRange(s) == {s[i] : i \in 1..Len(s)}

\* Array.prototype.indexOf, 0-based, -1 when absent
IndexOf(s, x) ==
  IF \E i \in 1..Len(s) : s[i] = x
    THEN (CHOOSE i \in 1..Len(s) : s[i] = x /\ \A j \in 1..(i-1) : s[j] # x) - 1
    ELSE -1

\* Map.prototype.has / get / set / delete on the insertion-ordered Map
MapHas(ws, key) == \E i \in 1..Len(ws) : ws[i].key = key
MapGet(ws, key) == ws[CHOOSE i \in 1..Len(ws) : ws[i].key = key]
MapSet(ws, key, rec) ==
  IF MapHas(ws, key)
    THEN [i \in 1..Len(ws) |-> IF ws[i].key = key THEN rec ELSE ws[i]]
    ELSE Append(ws, rec)
MapDelete(ws, key) == SelectSeq(ws, LAMBDA w : w.key # key)
MapKeys(ws) == [i \in 1..Len(ws) |-> ws[i].key]

\* ---------------------------------------------------- normalizeUploadAt
normalizeUploadAt(v, t) ==
  IF v.form = "number" THEN v.val
  ELSE IF v.form = "string" THEN (IF v.val # NaN THEN v.val ELSE t)
  ELSE IF v.form = "sv" THEN t
  ELSE t

\* ------------------------------------------------------------ WorkerPool
\* _toComparable(data), Date.now() = t
toComparable(data, t) ==
  [ url |-> OrElse(data.url, ""),
    upload_at |-> normalizeUploadAt(data.upload_at, t),
    version |-> OrElse(data.version, "unknown"),
    runner_by |-> OrElse(data.runner_by, "unknown") ]

\* A sort that is not stable: a record goes before the records already
\* placed that have its upload_at
InsertSortedBeforeEqual(sorted, w) ==
  LET n == Cardinality({i \in 1..Len(sorted) : sorted[i].upload_at < w.upload_at})
  IN  SubSeq(sorted, 1, n) \o <<w>> \o SubSeq(sorted, n + 1, Len(sorted))

\* The sort with the comparator turned around: b.upload_at - a.upload_at
InsertSortedDescending(sorted, w) ==
  LET n == Cardinality({i \in 1..Len(sorted) : sorted[i].upload_at >= w.upload_at})
  IN  SubSeq(sorted, 1, n) \o <<w>> \o SubSeq(sorted, n + 1, Len(sorted))

\* Array.prototype.sort((a, b) => a.upload_at - b.upload_at): stable, so a
\* record goes after every record already placed whose upload_at is <= its.
InsertSorted(sorted, w) ==
  LET n == Cardinality({i \in 1..Len(sorted) : sorted[i].upload_at <= w.upload_at})
  IN  SubSeq(sorted, 1, n) \o <<w>> \o SubSeq(sorted, n + 1, Len(sorted))

\* The sort left out: the records in the Map's order of insertion
SortByUploadAtNone(ws) == ws

RECURSIVE SortByUploadAt(_)
SortByUploadAt(ws) ==
  IF Len(ws) = 0 THEN <<>>
  ELSE InsertSorted(SortByUploadAt(SubSeq(ws, 1, Len(ws) - 1)), ws[Len(ws)])

\* updateWorker() that reports a change for every record it stores
updateWorkerAlwaysChanged(ws, key, data) ==
  IF Falsy(data.url)
    THEN [workers |-> ws, changed |-> FALSE]
    ELSE
      [ workers |-> MapSet(ws, key,
                      [ key |-> key,
                        url |-> data.url,
                        upload_at |-> data.upload_at,
                        version |-> OrElse(data.version, "unknown"),
                        runner_by |-> OrElse(data.runner_by, "unknown") ]),
        changed |-> TRUE ]

\* updateWorker() that stores a record only for a key the Map does not have
updateWorkerAddOnly(ws, key, data) ==
  IF Falsy(data.url)
    THEN [workers |-> ws, changed |-> FALSE]
    ELSE IF MapHas(ws, key)
      THEN [workers |-> ws, changed |-> FALSE]
      ELSE [ workers |-> Append(ws,
                           [ key |-> key,
                             url |-> data.url,
                             upload_at |-> data.upload_at,
                             version |-> OrElse(data.version, "unknown"),
                             runner_by |-> OrElse(data.runner_by, "unknown") ]),
             changed |-> TRUE ]

\* updateWorker(key, data, resort = false, log = false) on the Map ws, where
\* data.upload_at is already a number: the new Map and the returned flag.
updateWorker(ws, key, data) ==
  IF Falsy(data.url)
    THEN [workers |-> ws, changed |-> FALSE]
    ELSE
      LET next == [ key |-> key,
                    url |-> data.url,
                    upload_at |-> data.upload_at,
                    version |-> OrElse(data.version, "unknown"),
                    runner_by |-> OrElse(data.runner_by, "unknown") ]
      IN  [ workers |-> MapSet(ws, key, next),
            changed |-> IF ~MapHas(ws, key) THEN TRUE
                        ELSE LET prev == MapGet(ws, key)
                             IN  \/ prev.url # next.url
                                 \/ prev.upload_at # next.upload_at
                                 \/ prev.version # next.version
                                 \/ prev.runner_by # next.runner_by ]

\* removeWorker() that reports the removal and leaves the record in the Map
removeWorkerKeepsRecord(ws, key) ==
  IF MapHas(ws, key)
    THEN [workers |-> ws, ok |-> TRUE]
    ELSE [workers |-> ws, ok |-> FALSE]

\* removeWorker(key, resort = false, log = false): the new Map and the
\* returned flag
removeWorker(ws, key) ==
  IF MapHas(ws, key)
    THEN [workers |-> MapDelete(ws, key), ok |-> TRUE]
    ELSE [workers |-> ws, ok |-> FALSE]

\* The "remove missing" loop of syncFromObject over entries i..Len(keys) of
\* Array.from(this.workers.keys()); acc carries the Map and the removed list.
RECURSIVE RemoveMissing(_, _, _, _)
RemoveMissing(acc, keys, nextKeys, i) ==
  IF i > Len(keys) THEN acc
  ELSE IF keys[i] \in nextKeys THEN RemoveMissing(acc, keys, nextKeys, i + 1)
  ELSE
    LET r == removeWorker(acc.workers, keys[i])
    IN  RemoveMissing(
          [ workers |-> r.workers,
            removed |-> IF r.ok THEN Append(acc.removed, keys[i]) ELSE acc.removed ],
          keys, nextKeys, i + 1)

\* _resort() that keeps the old index while it is in range, whatever key is under it
resortKeepIndex(ws, sk, ci) ==
  LET newKeys == MapKeys(SortByUploadAt(ws))
  IN  [ sortedKeys |-> newKeys,
        currentIndex |-> IF ci >= Len(newKeys) THEN 0 ELSE ci ]

\* _resort() that falls back to the old index, when in range, for a key that is gone
resortFallBackToIndex(ws, sk, ci) ==
  LET currentKey == IF ci + 1 <= Len(sk) THEN sk[ci + 1] ELSE NoVal
      newKeys == MapKeys(SortByUploadAt(ws))
  IN  [ sortedKeys |-> newKeys,
        currentIndex |->
          IF Len(newKeys) = 0 THEN 0
          ELSE IF ~Falsy(currentKey) /\ IndexOf(newKeys, currentKey) >= 0
            THEN IndexOf(newKeys, currentKey)
          ELSE IF ci >= Len(newKeys) THEN 0
          ELSE ci ]

\* _resort(): the new sortedKeys and currentIndex for the Map ws
resort(ws, sk, ci) ==
  LET currentKey == IF ci + 1 <= Len(sk) THEN sk[ci + 1] ELSE NoVal
      newKeys == MapKeys(SortByUploadAt(ws))
  IN  [ sortedKeys |-> newKeys,
        currentIndex |->
          IF Len(newKeys) = 0 THEN 0
          ELSE IF ~Falsy(currentKey)
            THEN (IF IndexOf(newKeys, currentKey) >= 0
                    THEN IndexOf(newKeys, currentKey) ELSE 0)
          ELSE IF ci >= Len(newKeys) THEN 0
          ELSE ci ]

\* The "upsert all" loop without its url checks
RECURSIVE UpsertUnchecked(_, _, _, _, _)
UpsertUnchecked(acc, incoming, beforeKeys, t, i) ==
  IF i > Len(KeyOrder) THEN acc
  ELSE
    LET key == KeyOrder[i] IN
    IF key \notin DOMAIN incoming THEN UpsertUnchecked(acc, incoming, beforeKeys, t, i + 1)
    ELSE
      LET nextComp == toComparable(incoming[key], t)
      IN  UpsertUnchecked(
            [ workers |-> MapSet(acc.workers, key,
                            [ key |-> key, url |-> nextComp.url,
                              upload_at |-> nextComp.upload_at,
                              version |-> nextComp.version,
                              runner_by |-> nextComp.runner_by ]),
              added |-> IF key \notin beforeKeys THEN Append(acc.added, key) ELSE acc.added,
              updated |-> acc.updated ],
            incoming, beforeKeys, t, i + 1)

\* The "upsert all" loop of syncFromObject over entries i..Len(KeyOrder) of
\* Object.entries(incoming); acc carries the Map and the added / updated lists.
RECURSIVE Upsert(_, _, _, _, _)
Upsert(acc, incoming, beforeKeys, t, i) ==
  IF i > Len(KeyOrder) THEN acc
  ELSE
    LET key == KeyOrder[i] IN
    IF key \notin DOMAIN incoming THEN Upsert(acc, incoming, beforeKeys, t, i + 1)
    ELSE
      LET raw == incoming[key]
          nextComp == toComparable(raw, t)
      IN
      IF Falsy(nextComp.url) THEN Upsert(acc, incoming, beforeKeys, t, i + 1)
      ELSE
        LET existed == key \in beforeKeys
            u == updateWorker(acc.workers, key,
                   [ url |-> raw.url,
                     upload_at |-> nextComp.upload_at,
                     version |-> nextComp.version,
                     runner_by |-> nextComp.runner_by ])
        IN  Upsert(
              [ workers |-> u.workers,
                added |-> IF ~existed THEN Append(acc.added, key) ELSE acc.added,
                updated |-> IF existed /\ u.changed
                              THEN Append(acc.updated, key) ELSE acc.updated ],
              incoming, beforeKeys, t, i + 1)

\* syncFromObject() that calls _resort() before its "remove missing" loop
syncFromObjectResortFirst(ws, sk, ci, incoming, t) ==
  LET beforeKeys == SeqRange(MapKeys(ws))
      nextKeys == DOMAIN incoming
      rs == resort(ws, sk, ci)
      rm == RemoveMissing([workers |-> ws, removed |-> <<>>], MapKeys(ws), nextKeys, 1)
      up == Upsert([workers |-> rm.workers, added |-> <<>>, updated |-> <<>>],
                   incoming, beforeKeys, t, 1)
  IN  [ workers |-> up.workers,
        sortedKeys |-> rs.sortedKeys,
        currentIndex |-> rs.currentIndex,
        diff |-> [added |-> up.added, removed |-> rm.removed, updated |-> up.updated] ]

\* syncFromObject() without its closing _resort()
syncFromObjectNoResort(ws, sk, ci, incoming, t) ==
  LET beforeKeys == SeqRange(MapKeys(ws))
      nextKeys == DOMAIN incoming
      rm == RemoveMissing([workers |-> ws, removed |-> <<>>], MapKeys(ws), nextKeys, 1)
      up == Upsert([workers |-> rm.workers, added |-> <<>>, updated |-> <<>>],
                   incoming, beforeKeys, t, 1)
  IN  [ workers |-> up.workers,
        sortedKeys |-> sk,
        currentIndex |-> ci,
        diff |-> [added |-> up.added, removed |-> rm.removed, updated |-> up.updated] ]

\* syncFromObject(obj) with Date.now() = t: the new Map, sortedKeys and
\* currentIndex, and the added / removed / updated lists it computes.
syncFromObject(ws, sk, ci, incoming, t) ==
  LET beforeKeys == SeqRange(MapKeys(ws))
      nextKeys == DOMAIN incoming
      rm == RemoveMissing([workers |-> ws, removed |-> <<>>], MapKeys(ws), nextKeys, 1)
      up == Upsert([workers |-> rm.workers, added |-> <<>>, updated |-> <<>>],
                   incoming, beforeKeys, t, 1)
      rs == resort(up.workers, sk, ci)
  IN  [ workers |-> up.workers,
        sortedKeys |-> rs.sortedKeys,
        currentIndex |-> rs.currentIndex,
        diff |-> [added |-> up.added, removed |-> rm.removed, updated |-> up.updated] ]

\* getNextWorker() that advances without wrapping around
getNextWorkerNoWrap(ws, sk, ci) ==
  IF Len(sk) = 0 THEN [worker |-> NullWorker, currentIndex |-> ci]
  ELSE
    LET key == IF ci < Len(sk) THEN sk[ci + 1] ELSE NoVal
    IN  [ worker |-> IF MapHas(ws, key) THEN MapGet(ws, key) ELSE NullWorker,
          currentIndex |-> ci + 1 ]

\* getNextWorker() that advances by two
getNextWorkerSkip(ws, sk, ci) ==
  IF Len(sk) = 0 THEN [worker |-> NullWorker, currentIndex |-> ci]
  ELSE
    LET key == sk[ci + 1]
    IN  [ worker |-> IF MapHas(ws, key) THEN MapGet(ws, key) ELSE NullWorker,
          currentIndex |-> (ci + 2) % Len(sk) ]

\* getNextWorker() that advances first and then reads the key
getNextWorkerReadAfter(ws, sk, ci) ==
  IF Len(sk) = 0 THEN [worker |-> NullWorker, currentIndex |-> ci]
  ELSE
    LET key == sk[((ci + 1) % Len(sk)) + 1]
    IN  [ worker |-> IF MapHas(ws, key) THEN MapGet(ws, key) ELSE NullWorker,
          currentIndex |-> (ci + 1) % Len(sk) ]

\* getNextWorker() that leaves the cursor where it is
getNextWorkerStay(ws, sk, ci) ==
  IF Len(sk) = 0 THEN [worker |-> NullWorker, currentIndex |-> ci]
  ELSE
    LET key == sk[ci + 1]
    IN  [ worker |-> IF MapHas(ws, key) THEN MapGet(ws, key) ELSE NullWorker,
          currentIndex |-> ci ]

\* getNextWorker(): the returned worker (NullWorker for null) and the new index
getNextWorker(ws, sk, ci) ==
  IF Len(sk) = 0 THEN [worker |-> NullWorker, currentIndex |-> ci]
  ELSE
    LET key == sk[ci + 1]
    IN  [ worker |-> IF MapHas(ws, key) THEN MapGet(ws, key) ELSE NullWorker,
          currentIndex |-> (ci + 1) % Len(sk) ]

\* getAllWorkers() that returns the records in the Map's order of insertion
getAllWorkersUnsorted(ws) == ws

\* getAllWorkers()
getAllWorkers(ws) == SortByUploadAt(ws)

\* size()
size(ws) == Len(ws)

\* ----------------------------------------------------------------- state
VARIABLES
  workers,        \* WorkerPool.workers: records in Map insertion order
  sortedKeys,     \* WorkerPool.sortedKeys
  currentIndex,   \* WorkerPool.currentIndex
  firstSyncLogged,\* WorkerPool._firstSyncLogged
  now,            \* Date.now()
  alive,          \* the process is running
  inflight,       \* the requests handed to proxy.web / proxy.ws and not ended (a bag)
  op,             \* the callback or call that ran last
  ret,            \* what getNextWorker() returned, when it ran last
  run,            \* keys returned by the getNextWorker() calls since the last
                  \* feed callback (the latest MaxRun of them)
  pres,           \* currentIndex as each of those calls found it
  listing,        \* what getAllWorkers() returned, when it ran last
  resp,           \* what the callback that ran last wrote to its client
  lastVal,        \* snapshot.val() of the "value" callback, when it ran last
  diff,           \* added / removed / updated of that syncFromObject
  prev,           \* currentIndex and the key under it before that syncFromObject
  proc,           \* start(): where it is, the credential it was given, whether
                  \* the feed is subscribed and the server listens, the exit code
  env,            \* envListener.js: the value of activeInstanceId on the server,
                  \* the writes of it on their way, and every instance's state
  reload,         \* envListener.js: the ENV subscription's flag, its callbacks'
                  \* reload-and-restart sequences and the PM2 connection
  job,            \* keep-job-alive.js: the poll loop, the signal handlers, the exit
  nginx           \* run-nginx.mjs: main(), the nginx processes it spawned, the exit

vars == <<workers, sortedKeys, currentIndex, firstSyncLogged, now, alive, inflight,
          op, ret, run, pres, listing, resp, lastVal, diff, prev, proc, env,
          reload, job, nginx>>

registry == <<workers, sortedKeys, currentIndex, firstSyncLogged>>

NoPrev == [index |-> 0, key |-> NoVal]

\* What a client got: status 0 when no status line was written, destroyed
\* when its socket was destroyed.
Response(k, st, err, rid, ws, n, d) ==
  [ kind |-> k, status |-> st, error |-> err, request_id |-> rid,
    workers |-> ws, total_workers |-> n, destroyed |-> d ]

NoResp == Response("none", 0, "", "", <<>>, 0, FALSE)

\* A request that is being forwarded: the target and the x-proxy-worker and
\* x-proxy-worker-version headers it was given.
Forwarded(k, w) ==
  [kind |-> k, target |-> w.url, worker |-> w.key, version |-> w.version]

\* The envListener processes that may be started
MaxInst == 2
Instances == 1..MaxInst

\* snap.val() of activeInstanceId when nothing was written to it
NullId == 0

\* The view of a listener that was not called yet
Unseen == MaxInst + 1

\* An envListener process that was not started
InstanceOff ==
  [pc |-> "off", reg |-> "none", isFirstActiveIdSnapshot |-> TRUE, exiting |-> FALSE,
   listening |-> FALSE, view |-> Unseen]

\* No envListener runs and activeInstanceId was never written
NoInstances ==
  [active |-> NullId, pending |-> {}, inst |-> [i \in Instances |-> InstanceOff]]

\* The callbacks of the ENV subscription of one envListener process
MaxCb == 3

\* The entries of the list of PM2 apps
MaxApps == 3

\* The entries a list of PM2 apps is made of: names, one of them with blanks
\* around it, and an entry of blanks only
AppEntries == {"nginx", " cloudflared ", " "}

\* The lists of PM2 apps that options.pm2Apps may hold
RECURSIVE ListsUpTo(_)
ListsUpTo(n) ==
  IF n = 0 THEN {<<>>}
  ELSE LET shorter == ListsUpTo(n - 1)
       IN  shorter \cup {Append(l, e) : l \in {s \in shorter : Len(s) = n - 1}, e \in AppEntries}
AppLists == ListsUpTo(MaxApps)

\* envListener's ENV subscription before startEnvListener() is called
NoReload ==
  [started |-> FALSE, pm2Apps |-> <<>>, isFirstEnvSnapshot |-> TRUE, connected |-> FALSE,
   runs |-> <<>>]

\* process.env.ENV_LISTENER_FB_SERVICES_ACCOUNT_BASE64: not set (or empty),
\* text that is no base64 of a service account in JSON, a service account
Creds == {"missing", "garbled", "valid"}

\* No exit code: the process has not called process.exit
NoExit == <<>>

\* The pid queries of one keep-job-alive process
MaxPoll == 4

\* The signals that keep-job-alive and run-nginx handle
Signals == {"SIGINT", "SIGTERM"}

\* Number(process.env.EXIT_CODE_ON_STOP || "0")
StopCodes == {0, 1}

\* keep-job-alive before it is started
JobOff ==
  [pc |-> "off", EXIT_CODE_ON_STOP |-> 0, stopping |-> FALSE, polls |-> 0, sawStop |-> FALSE,
   signals |-> <<>>, waiting |-> {}, exitCode |-> NoExit]

\* The nginx config handed to run-nginx in NGINX_CONF__BASE64__ / NGINX_CONF:
\* none (or blanks only), one that nginx -t rejects, one that it accepts
Confs == {"missing", "invalid", "valid"}

\* run-nginx before it is started: the config it is given, whether the pid
\* file names a live nginx (running) that differs from the new config
\* (configChanged) and takes a SIGHUP (hup), the nginx -t and the foreground
\* nginx that main() spawned, whether a validation had succeeded when the
\* latter was spawned, whether the running nginx was reloaded, the signal
\* that was handled, the exit code
NginxOff ==
  [pc |-> "off", conf |-> "missing", running |-> FALSE, configChanged |-> FALSE,
   hup |-> FALSE, test |-> "none", daemon |-> "none", validated |-> FALSE,
   reloaded |-> FALSE, signal |-> NoVal, exitCode |-> NoExit]

\* start() not yet called, with the credential c in the environment
Cold(c) ==
  [pc |-> "cold", cred |-> c, subscribed |-> FALSE, listening |-> FALSE, exitCode |-> NoExit]

\* start() has subscribed to the feed and the server listens
Booted ==
  [pc |-> "serving", cred |-> "valid", subscribed |-> TRUE, listening |-> TRUE,
   exitCode |-> NoExit]

\* The process that serves, before the first value of the feed
Init ==
  /\ proc = Booted
  /\ env = NoInstances
  /\ reload = NoReload
  /\ job = JobOff
  /\ nginx = NginxOff
  /\ workers = <<>>
  /\ sortedKeys = <<>>
  /\ currentIndex = 0
  /\ firstSyncLogged = FALSE
  /\ now = 1
  /\ alive = TRUE
  /\ inflight = EmptyBag
  /\ op = "init"
  /\ ret = NullWorker
  /\ run = <<>>
  /\ pres = <<>>
  /\ listing = <<>>
  /\ resp = NoResp
  /\ lastVal = NullVal
  /\ diff = NoDiff
  /\ prev = NoPrev

\* Nothing is kept of a "value" callback.
NoSyncLog ==
  /\ lastVal' = NullVal
  /\ diff' = NoDiff
  /\ prev' = NoPrev

\* A window with x as its latest entry
Push(window, x) ==
  IF Len(window) < MaxRun THEN Append(window, x) ELSE Append(Tail(window), x)

\* run and pres after a getNextWorker() call that gave g
Served(g) ==
  /\ run' = IF g.worker = NullWorker THEN <<>> ELSE Push(run, g.worker.key)
  /\ pres' = IF g.worker = NullWorker THEN <<>> ELSE Push(pres, currentIndex)

\* Time passes between callbacks.  A pushed value has at most one entry whose
\* upload_at is read from the clock, so one callback reads Date.now() once.
Tick ==
  /\ alive
  /\ now < MaxTime
  /\ now' = now + 1
  /\ UNCHANGED <<registry, alive, inflight, op, ret, run, pres, listing, resp,
                 lastVal, diff, prev, proc, env, reload, job, nginx>>

\* The registry after syncFromObject gave s
Synced(s) ==
  /\ workers' = s.workers
  /\ sortedKeys' = s.sortedKeys
  /\ currentIndex' = s.currentIndex
  /\ firstSyncLogged' = TRUE

\* The callback after which the requests being forwarded to a worker that
\* is still registered go to that worker's new url, under its new version
OnValueRetargets(val) ==
  LET all == IF val.isNull THEN <<>> ELSE val.entries
      s == syncFromObject(workers, sortedKeys, currentIndex, all, now)
      Again(q) == IF MapHas(s.workers, q.worker)
                    THEN Forwarded(q.kind, MapGet(s.workers, q.worker))
                    ELSE q
  IN  /\ alive
      /\ proc.subscribed
      /\ Synced(s)
      /\ inflight' = BagOfAll(Again, inflight)
      /\ op' = "value"
      /\ ret' = NullWorker
      /\ run' = <<>>
      /\ pres' = <<>>
      /\ listing' = <<>>
      /\ resp' = NoResp
      /\ NoSyncLog
      /\ UNCHANGED <<now, proc, env, reload, job, nginx, alive>>

\* workersRef.on("value", snapshot => workerPool.syncFromObject(snapshot.val() || {}))
OnValue(val) ==
  LET all == IF val.isNull THEN <<>> ELSE val.entries
  IN  /\ alive
      /\ proc.subscribed
      /\ Synced(syncFromObject(workers, sortedKeys, currentIndex, all, now))
      /\ op' = "value"
      /\ ret' = NullWorker
      /\ run' = <<>>
      /\ pres' = <<>>
      /\ listing' = <<>>
      /\ resp' = NoResp
      /\ NoSyncLog
      /\ UNCHANGED <<now, proc, env, reload, job, nginx, alive, inflight>>

\* The callback that takes a null value for a failure and keeps the registry
OnValueLoggedKeepsOnNull(val) ==
  LET all == IF val.isNull THEN <<>> ELSE val.entries
      s == syncFromObject(workers, sortedKeys, currentIndex, all, now)
  IN  /\ alive
      /\ proc.subscribed
      /\ IF val.isNull THEN UNCHANGED registry ELSE Synced(s)
      /\ op' = "value"
      /\ ret' = NullWorker
      /\ run' = <<>>
      /\ pres' = <<>>
      /\ listing' = <<>>
      /\ resp' = NoResp
      /\ lastVal' = val
      /\ diff' = IF val.isNull THEN NoDiff ELSE s.diff
      /\ prev' = [ index |-> currentIndex,
                   key |-> IF currentIndex < Len(sortedKeys)
                             THEN sortedKeys[currentIndex + 1] ELSE NoVal ]
      /\ UNCHANGED <<now, proc, env, reload, job, nginx, alive, inflight>>

\* The same callback, with what it was given and what it computed kept.
OnValueLogged(val) ==
  LET all == IF val.isNull THEN <<>> ELSE val.entries
      s == syncFromObject(workers, sortedKeys, currentIndex, all, now)
  IN  /\ alive
      /\ proc.subscribed
      /\ Synced(s)
      /\ op' = "value"
      /\ ret' = NullWorker
      /\ run' = <<>>
      /\ pres' = <<>>
      /\ listing' = <<>>
      /\ resp' = NoResp
      /\ lastVal' = val
      /\ diff' = s.diff
      /\ prev' = [ index |-> currentIndex,
                   key |-> IF currentIndex < Len(sortedKeys)
                             THEN sortedKeys[currentIndex + 1] ELSE NoVal ]
      /\ UNCHANGED <<now, proc, env, reload, job, nginx, alive, inflight>>

\* The error callback that clears the registry
OnErrorClears ==
  /\ alive
  /\ proc.subscribed
  /\ workers' = <<>>
  /\ sortedKeys' = <<>>
  /\ currentIndex' = 0
  /\ op' = "error"
  /\ ret' = NullWorker
  /\ run' = <<>>
  /\ pres' = <<>>
  /\ listing' = <<>>
  /\ resp' = NoResp
  /\ NoSyncLog
  /\ UNCHANGED <<firstSyncLogged, now, proc, env, reload, job, nginx, alive, inflight>>

\* workersRef.on("value", ..., err => console.error(...))
OnError ==
  /\ alive
  /\ proc.subscribed
  /\ op' = "error"
  /\ ret' = NullWorker
  /\ run' = <<>>
  /\ pres' = <<>>
  /\ listing' = <<>>
  /\ resp' = NoResp
  /\ NoSyncLog
  /\ UNCHANGED <<registry, now, proc, env, reload, job, nginx, alive, inflight>>

\* workerPool.getNextWorker()
GetNextWorker ==
  LET g == getNextWorker(workers, sortedKeys, currentIndex)
  IN  /\ alive
      /\ ret' = g.worker
      /\ currentIndex' = g.currentIndex
      /\ Served(g)
      /\ op' = "next"
      /\ listing' = <<>>
      /\ resp' = NoResp
      /\ NoSyncLog
      /\ UNCHANGED <<workers, sortedKeys, firstSyncLogged, now, proc, env, reload, job, nginx,
            alive, inflight>>

\* workerPool.getAllWorkers() and workerPool.size()
GetAllWorkers ==
  /\ alive
  /\ listing' = getAllWorkers(workers)
  /\ op' = "all"
  /\ ret' = NullWorker
  /\ run' = <<>>
  /\ pres' = <<>>
  /\ resp' = NoResp
  /\ NoSyncLog
  /\ UNCHANGED <<registry, now, proc, env, reload, job, nginx, alive, inflight>>

\* --------------------------------------------------------- HTTP server
\* new Date(n).toISOString(): the text of a valid date, and a RangeError
\* thrown for a time value outside the range of Date
RangeError == <<"RangeError">>
toISOString(n) ==
  IF n >= -LastDate /\ n <= LastDate THEN <<"ISO-8601", n>> ELSE RangeError

\* The workers list of the health body
HealthWorkers(ws) ==
  [ i \in 1..Len(getAllWorkers(ws)) |->
      LET w == getAllWorkers(ws)[i]
      IN  [ key |-> w.key, url |-> w.url, version |-> w.version,
            upload_at |-> toISOString(w.upload_at) ] ]

\* Building the health body throws: nothing catches an exception of the
\* request listener, so the process ends and the client's connection with it.
HealthThrows(ws) ==
  \E i \in 1..Len(ws) : toISOString(ws[i].upload_at) = RangeError

\* The request handler with a health branch that takes the next worker first
HttpRequestHealthRotates(path, hdr) ==
  LET reqId == IF Falsy(hdr) THEN "uuid-v4" ELSE hdr
      g == getNextWorker(workers, sortedKeys, currentIndex)
      health == path \in HealthPaths
  IN  /\ alive
      /\ proc.listening
      /\ (g.worker # NullWorker /\ ~health) => BagCardinality(inflight) < MaxReq
      /\ ret' = g.worker
      /\ currentIndex' = g.currentIndex
      /\ Served(g)
      /\ op' = IF health THEN "health" ELSE "http"
      /\ IF health
           THEN /\ resp' = Response("health", 200, "", "", HealthWorkers(workers),
                                    size(workers), FALSE)
                /\ inflight' = inflight
           ELSE IF g.worker = NullWorker
             THEN /\ resp' = Response("http", 503, "Service Unavailable", reqId,
                                      <<>>, 0, FALSE)
                  /\ inflight' = inflight
             ELSE /\ resp' = NoResp
                  /\ inflight' = inflight (+) SetToBag({Forwarded("http", g.worker)})
      /\ listing' = <<>>
      /\ NoSyncLog
      /\ UNCHANGED <<workers, sortedKeys, firstSyncLogged, now, proc, env, reload, job, nginx, alive>>

\* The request handler that answers 503 with the request id "unknown" when
\* the caller sent none
HttpRequestUnknownId(path, hdr) ==
  /\ alive
  /\ proc.listening
  /\ IF path \in HealthPaths
       THEN /\ IF HealthThrows(workers)
                 THEN /\ resp' = Response("health", 0, "", "", <<>>, 0, TRUE)
                      /\ alive' = FALSE
                 ELSE /\ resp' = Response("health", 200, "", "", HealthWorkers(workers),
                                          size(workers), FALSE)
                      /\ alive' = alive
            /\ op' = "health"
            /\ ret' = NullWorker
            /\ UNCHANGED <<registry, inflight, run, pres>>
       ELSE
         LET reqId == IF Falsy(hdr) THEN "unknown" ELSE hdr
             g == getNextWorker(workers, sortedKeys, currentIndex)
         IN  /\ g.worker # NullWorker => BagCardinality(inflight) < MaxReq
             /\ ret' = g.worker
             /\ currentIndex' = g.currentIndex
             /\ Served(g)
             /\ op' = "http"
             /\ IF g.worker = NullWorker
                  THEN /\ resp' = Response("http", 503, "Service Unavailable", reqId,
                                           <<>>, 0, FALSE)
                       /\ inflight' = inflight
                  ELSE /\ resp' = NoResp
                       /\ inflight' = inflight (+) SetToBag({Forwarded("http", g.worker)})
             /\ UNCHANGED <<workers, sortedKeys, firstSyncLogged, alive>>
  /\ listing' = <<>>
  /\ NoSyncLog
  /\ UNCHANGED <<now, proc, env, reload, job, nginx>>

\* The handler that leaves a request unanswered while there is no worker
HttpRequestWaitsForWorker(path, hdr) ==
  /\ alive
  /\ proc.listening
  /\ IF path \in HealthPaths
       THEN /\ IF HealthThrows(workers)
                 THEN /\ resp' = Response("health", 0, "", "", <<>>, 0, TRUE)
                      /\ alive' = FALSE
                 ELSE /\ resp' = Response("health", 200, "", "", HealthWorkers(workers),
                                          size(workers), FALSE)
                      /\ alive' = alive
            /\ op' = "health"
            /\ ret' = NullWorker
            /\ UNCHANGED <<registry, inflight, run, pres>>
       ELSE
         LET reqId == IF Falsy(hdr) THEN "uuid-v4" ELSE hdr
             g == getNextWorker(workers, sortedKeys, currentIndex)
         IN  /\ g.worker # NullWorker => BagCardinality(inflight) < MaxReq
             /\ ret' = g.worker
             /\ currentIndex' = g.currentIndex
             /\ Served(g)
             /\ op' = "http"
             /\ IF g.worker = NullWorker
                  THEN /\ resp' = NoResp
                       /\ inflight' = inflight
                  ELSE /\ resp' = NoResp
                       /\ inflight' = inflight (+) SetToBag({Forwarded("http", g.worker)})
             /\ UNCHANGED <<workers, sortedKeys, firstSyncLogged, alive>>
  /\ listing' = <<>>
  /\ NoSyncLog
  /\ UNCHANGED <<now, proc, env, reload, job, nginx>>

\* http.createServer((req, res) => ...) with req.url = path and
\* req.headers["x-request-id"] = hdr
HttpRequest(path, hdr) ==
  /\ alive
  /\ proc.listening
  /\ IF path \in HealthPaths
       THEN /\ IF HealthThrows(workers)
                 THEN /\ resp' = Response("health", 0, "", "", <<>>, 0, TRUE)
                      /\ alive' = FALSE
                 ELSE /\ resp' = Response("health", 200, "", "", HealthWorkers(workers),
                                          size(workers), FALSE)
                      /\ alive' = alive
            /\ op' = "health"
            /\ ret' = NullWorker
            /\ UNCHANGED <<registry, inflight, run, pres>>
       ELSE
         LET reqId == IF Falsy(hdr) THEN "uuid-v4" ELSE hdr
             g == getNextWorker(workers, sortedKeys, currentIndex)
         IN  /\ g.worker # NullWorker => BagCardinality(inflight) < MaxReq
             /\ ret' = g.worker
             /\ currentIndex' = g.currentIndex
             /\ Served(g)
             /\ op' = "http"
             /\ IF g.worker = NullWorker
                  THEN /\ resp' = Response("http", 503, "Service Unavailable", reqId,
                                           <<>>, 0, FALSE)
                       /\ inflight' = inflight
                  ELSE /\ resp' = NoResp
                       /\ inflight' = inflight (+) SetToBag({Forwarded("http", g.worker)})
             /\ UNCHANGED <<workers, sortedKeys, firstSyncLogged, alive>>
  /\ listing' = <<>>
  /\ NoSyncLog
  /\ UNCHANGED <<now, proc, env, reload, job, nginx>>

\* The upgrade handler that writes a 503 status to the socket when there is
\* no worker
UpgradeRequestAnswers503(hdr) ==
  LET g == getNextWorker(workers, sortedKeys, currentIndex)
      reqId == IF Falsy(hdr) THEN "uuid-v4" ELSE hdr
  IN  /\ alive
      /\ proc.listening
      /\ g.worker # NullWorker => BagCardinality(inflight) < MaxReq
      /\ ret' = g.worker
      /\ currentIndex' = g.currentIndex
      /\ Served(g)
      /\ op' = "upgrade"
      /\ IF g.worker = NullWorker
           THEN /\ resp' = Response("upgrade", 503, "Service Unavailable", reqId,
                                    <<>>, 0, FALSE)
                /\ inflight' = inflight
           ELSE /\ resp' = NoResp
                /\ inflight' = inflight (+) SetToBag({Forwarded("upgrade", g.worker)})
      /\ listing' = <<>>
      /\ NoSyncLog
      /\ UNCHANGED <<workers, sortedKeys, firstSyncLogged, now, proc, env, reload, job, nginx, alive>>

\* server.on("upgrade", (req, socket, head) => ...)
UpgradeRequest(hdr) ==
  LET g == getNextWorker(workers, sortedKeys, currentIndex)
  IN  /\ alive
      /\ proc.listening
      /\ g.worker # NullWorker => BagCardinality(inflight) < MaxReq
      /\ ret' = g.worker
      /\ currentIndex' = g.currentIndex
      /\ Served(g)
      /\ op' = "upgrade"
      /\ IF g.worker = NullWorker
           THEN /\ resp' = Response("upgrade", 0, "", "", <<>>, 0, TRUE)
                /\ inflight' = inflight
           ELSE /\ resp' = NoResp
                /\ inflight' = inflight (+) SetToBag({Forwarded("upgrade", g.worker)})
      /\ listing' = <<>>
      /\ NoSyncLog
      /\ UNCHANGED <<workers, sortedKeys, firstSyncLogged, now, proc, env, reload, job, nginx, alive>>

\* A forwarded request q ends with the worker's answer: res.on("finish") of
\* an HTTP request, the end of an upgraded connection.
ForwardDone(q) ==
  /\ alive
  /\ BagIn(q, inflight)
  /\ inflight' = inflight (-) SetToBag({q})
  /\ resp' = Response(q.kind, 200, "", "", <<>>, 0, FALSE)
  /\ op' = "done"
  /\ ret' = NullWorker
  /\ listing' = <<>>
  /\ NoSyncLog
  /\ UNCHANGED <<registry, now, proc, env, reload, job, nginx, alive, run, pres>>

\* A failure of q after which the next worker is tried for it
ForwardFailRetry(q) ==
  LET g == getNextWorker(workers, sortedKeys, currentIndex)
  IN  /\ alive
      /\ BagIn(q, inflight)
      /\ inflight' = (inflight (-) SetToBag({q})) (+) SetToBag({Forwarded(q.kind, g.worker)})
      /\ currentIndex' = g.currentIndex
      /\ Served(g)
      /\ resp' = NoResp
      /\ op' = "fail"
      /\ ret' = g.worker
      /\ listing' = <<>>
      /\ NoSyncLog
      /\ UNCHANGED <<workers, sortedKeys, firstSyncLogged, now, proc, env, reload, job, nginx, alive>>

\* A failure of q after which the worker it was forwarded to is removed
ForwardFailEvicts(q) ==
  LET r == removeWorker(workers, q.worker)
      rs == resort(r.workers, sortedKeys, currentIndex)
  IN  /\ alive
      /\ BagIn(q, inflight)
      /\ inflight' = inflight (-) SetToBag({q})
      /\ workers' = r.workers
      /\ sortedKeys' = rs.sortedKeys
      /\ currentIndex' = rs.currentIndex
      /\ resp' = Response(q.kind, 0, "", "", <<>>, 0, FALSE)
      /\ alive' = (q.kind = "http")
      /\ op' = "fail"
      /\ ret' = NullWorker
      /\ listing' = <<>>
      /\ NoSyncLog
      /\ UNCHANGED <<firstSyncLogged, now, proc, env, reload, job, nginx, run, pres>>

\* Forwarding q fails.  proxy.web was given a callback, so the failure of an
\* HTTP request goes to that callback, which logs it.  proxy.ws was given
\* none, so the failure of an upgrade goes to proxy.on("error") with the
\* socket as res: res.headersSent is undefined and res.writeHead is no
\* function, the handler throws and nothing catches it.
ForwardFail(q) ==
  /\ alive
  /\ BagIn(q, inflight)
  /\ inflight' = inflight (-) SetToBag({q})
  /\ resp' = Response(q.kind, 0, "", "", <<>>, 0, FALSE)
  /\ alive' = (q.kind = "http")
  /\ op' = "fail"
  /\ ret' = NullWorker
  /\ listing' = <<>>
  /\ NoSyncLog
  /\ UNCHANGED <<registry, now, proc, env, reload, job, nginx, run, pres>>

\* A cancellation of q after which the cursor is put back by one
ClientCancelRollback(q) ==
  /\ alive
  /\ BagIn(q, inflight)
  /\ inflight' = inflight (-) SetToBag({q})
  /\ currentIndex' = IF Len(sortedKeys) = 0 THEN 0
                     ELSE (currentIndex + Len(sortedKeys) - 1) % Len(sortedKeys)
  /\ resp' = Response(q.kind, 0, "", "", <<>>, 0, TRUE)
  /\ op' = "cancel"
  /\ ret' = NullWorker
  /\ listing' = <<>>
  /\ NoSyncLog
  /\ UNCHANGED <<workers, sortedKeys, firstSyncLogged, now, proc, env, reload, job, nginx,
            alive, run, pres>>

\* The client of q goes away while q is being forwarded.
ClientCancel(q) ==
  /\ alive
  /\ BagIn(q, inflight)
  /\ inflight' = inflight (-) SetToBag({q})
  /\ resp' = Response(q.kind, 0, "", "", <<>>, 0, TRUE)
  /\ op' = "cancel"
  /\ ret' = NullWorker
  /\ listing' = <<>>
  /\ NoSyncLog
  /\ UNCHANGED <<registry, now, proc, env, reload, job, nginx, alive, run, pres>>

\* ------------------------------------------------------- specifications
\* The registry under feed callbacks and calls of its methods
Next ==
  \/ Tick
  \/ \E val \in Snapshots : OnValue(val)
  \/ OnError
  \/ GetNextWorker
  \/ GetAllWorkers

Spec == Init /\ [][Next]_vars

\* The registry under feed callbacks of which the input and the diff are kept
NextSync ==
  \/ Tick
  \/ \E val \in SyncSnapshots : OnValueLogged(val)
  \/ OnError
  \/ GetNextWorker

SpecSync == Init /\ [][NextSync]_vars

\* The server: requests, upgrades and their ends between feed callbacks
NextGw ==
  \/ \E val \in GwSnapshots : OnValue(val)
  \/ OnError
  \/ \E path \in Paths, hdr \in RequestIds : HttpRequest(path, hdr)
  \/ \E hdr \in RequestIds : UpgradeRequest(hdr)
  \/ \E q \in BagToSet(inflight) : ForwardDone(q)
  \/ \E q \in BagToSet(inflight) : ForwardFail(q)
  \/ \E q \in BagToSet(inflight) : ClientCancel(q)

SpecGw == Init /\ [][NextGw]_vars

\* The server answering health requests between feed callbacks and requests
NextHealth ==
  \/ \E val \in HealthSnapshots : OnValue(val)
  \/ \E path \in Paths, hdr \in RequestIds : HttpRequest(path, hdr)
  \/ \E q \in BagToSet(inflight) : ForwardDone(q)

SpecHealth == Init /\ [][NextHealth]_vars

\* initFirebase() returns (TRUE) or throws (FALSE): it throws when the
\* variable is not set, and rethrows what JSON.parse or credential.cert threw.
initFirebase(cred) == cred = "valid"

\* start() is called in a process whose environment holds any credential
InitStart ==
  /\ proc \in {Cold(c) : c \in Creds}
  /\ env = NoInstances
  /\ reload = NoReload
  /\ job = JobOff
  /\ nginx = NginxOff
  /\ workers = <<>>
  /\ sortedKeys = <<>>
  /\ currentIndex = 0
  /\ firstSyncLogged = FALSE
  /\ now = 1
  /\ alive = TRUE
  /\ inflight = EmptyBag
  /\ op = "init"
  /\ ret = NullWorker
  /\ run = <<>>
  /\ pres = <<>>
  /\ listing = <<>>
  /\ resp = NoResp
  /\ lastVal = NullVal
  /\ diff = NoDiff
  /\ prev = NoPrev

\* start() whose catch block logs the error and lets the function go on
StartSwallowsError ==
  /\ alive
  /\ proc.pc = "cold"
  /\ proc' = [proc EXCEPT !.pc = "waiting", !.subscribed = initFirebase(proc.cred)]
  /\ op' = "start"
  /\ UNCHANGED <<registry, now, alive, inflight, ret, run, pres, listing, resp,
                 lastVal, diff, prev, env, reload, job, nginx>>

\* start() up to its await: initFirebase() and startFirebaseListener() run
\* in one turn; what initFirebase() throws is caught and ends the process
\* with process.exit(1) before workersRef.on() is reached.
Start ==
  /\ alive
  /\ proc.pc = "cold"
  /\ IF initFirebase(proc.cred)
       THEN /\ proc' = [proc EXCEPT !.pc = "waiting", !.subscribed = TRUE]
            /\ alive' = alive
       ELSE /\ proc' = [proc EXCEPT !.pc = "exited", !.exitCode = <<1>>]
            /\ alive' = FALSE
  /\ op' = "start"
  /\ UNCHANGED <<registry, now, inflight, ret, run, pres, listing, resp,
                 lastVal, diff, prev, env, reload, job, nginx>>

\* start() after its await of 300 ms: server.listen(PORT)
Listen ==
  /\ alive
  /\ proc.pc = "waiting"
  /\ proc' = [proc EXCEPT !.pc = "serving", !.listening = TRUE]
  /\ op' = "listen"
  /\ ret' = NullWorker
  /\ run' = <<>>
  /\ pres' = <<>>
  /\ listing' = <<>>
  /\ resp' = NoResp
  /\ NoSyncLog
  /\ UNCHANGED <<registry, now, alive, inflight, env, reload, job, nginx>>

\* The process from the call of start(): the feed may deliver values before
\* and after the server listens, requests arrive once it listens.
NextStart ==
  \/ Start
  \/ Listen
  \/ \E val \in GwSnapshots : OnValue(val)
  \/ \E path \in Paths, hdr \in RequestIds : HttpRequest(path, hdr)
  \/ \E q \in BagToSet(inflight) : ForwardDone(q)

SpecStart == InitStart /\ [][NextStart]_vars

\* ------------------------------------------------------- envListener.js
\* Everything but env stays as it is.
EnvOnly ==
  UNCHANGED <<registry, now, alive, inflight, op, ret, run, pres, listing, resp,
              lastVal, diff, prev, proc, reload, job, nginx>>

\* safeExit(code, reason) up to its first await: nothing when it was called
\* before, otherwise exiting is set and both listeners are detached.
safeExit(r) ==
  IF r.exiting THEN r ELSE [r EXCEPT !.exiting = TRUE, !.listening = FALSE]

\* The callback of activeIdRef.on("value") in instance record r of instance
\* i with snap.val() = activeId: the first call only clears the flag, a later
\* one with another instance's id ends the instance.
onActiveId(r, i, activeId) ==
  LET seen == [r EXCEPT !.view = activeId]
  IN  IF r.isFirstActiveIdSnapshot
        THEN [seen EXCEPT !.isFirstActiveIdSnapshot = FALSE]
      ELSE IF activeId # NullId /\ activeId # i
        THEN safeExit(seen)
      ELSE seen

\* What the database client of instance i shows to its listeners: its own
\* write while the server has not applied it, else the server's value
Visible(i) == IF i \in env.pending THEN i ELSE env.active

\* startEnvListener(): instanceRef.set(...) is sent and the listeners are
\* attached in the same turn.
StartEnvListener(i) ==
  /\ env.inst[i].pc = "off"
  /\ env' = [env EXCEPT !.inst[i] =
               [pc |-> "running", reg |-> "instance", isFirstActiveIdSnapshot |-> TRUE,
                exiting |-> FALSE, listening |-> TRUE, view |-> Unseen]]
  /\ EnvOnly

\* instanceRef.set(...) of instance i went through: onDisconnect is set up
\* and activeIdRef.set(instanceId) is called, whatever exiting is; the client
\* raises the value event of a local write at once.
InstanceRegistered(i) ==
  LET r == env.inst[i]
      sent == [r EXCEPT !.reg = "active"]
  IN  /\ r.pc = "running"
      /\ r.reg = "instance"
      /\ env' = [env EXCEPT !.pending = @ \cup {i},
                            !.inst[i] = IF r.listening THEN onActiveId(sent, i, i)
                                        ELSE sent]
      /\ EnvOnly

\* The server applies the write of instance i to activeInstanceId; the
\* write was sent, so it is applied also when the instance has exited since.
ServerApplies(i) ==
  /\ i \in env.pending
  /\ env' = [env EXCEPT !.active = i, !.pending = @ \ {i},
                        !.inst[i].reg = IF @ = "active" THEN "done" ELSE @]
  /\ EnvOnly

\* instanceRef.set(...) of instance i is rejected: the catch block calls
\* safeExit(1, ...).
RegisterFails(i) ==
  LET r == env.inst[i]
  IN  /\ r.pc = "running"
      /\ r.reg = "instance"
      /\ env' = [env EXCEPT !.inst[i] = safeExit([r EXCEPT !.reg = "failed"])]
      /\ EnvOnly

\* The listener of instance i is called with the value its client shows,
\* which is another one than it was called with before.
ActiveIdValue(i) ==
  LET r == env.inst[i]
  IN  /\ r.pc = "running"
      /\ r.listening
      /\ Visible(i) # r.view
      /\ env' = [env EXCEPT !.inst[i] = onActiveId(r, i, Visible(i))]
      /\ EnvOnly

\* safeExit() of instance i after its awaits: process.exit(code)
ProcessExit(i) ==
  LET r == env.inst[i]
  IN  /\ r.pc = "running"
      /\ r.exiting
      /\ env' = [env EXCEPT !.inst[i] = [r EXCEPT !.pc = "exited"]]
      /\ EnvOnly

\* envListener processes that are started in any order and at any time
NextEnv ==
  \/ \E i \in Instances : StartEnvListener(i)
  \/ \E i \in Instances : InstanceRegistered(i)
  \/ \E i \in Instances : ServerApplies(i)
  \/ \E i \in Instances : RegisterFails(i)
  \/ \E i \in Instances : ActiveIdValue(i)
  \/ \E i \in Instances : ProcessExit(i)

SpecEnv == Init /\ [][NextEnv]_vars

\* -------------------------------------- envListener.js and pm2Restart.js
\* Everything but reload stays as it is.
ReloadOnly ==
  UNCHANGED <<registry, now, alive, inflight, op, ret, run, pres, listing, resp,
              lastVal, diff, prev, proc, env, job, nginx>>

\* String.prototype.trim on the entries of a list of apps
trim(x) ==
  IF x = " cloudflared " THEN "cloudflared"
  ELSE IF x = " " THEN ""
  ELSE x

\* pm2Apps.map((x) => (x || "").trim()).filter(Boolean)
AppNames(pm2Apps) ==
  SelectSeq([i \in 1..Len(pm2Apps) |-> trim(OrElse(pm2Apps[i], ""))], LAMBDA x : ~Falsy(x))

\* One callback of the ENV subscription: what it did (phase), and for a
\* call of restartPM2Apps its list, the names pm2.restart was called for, the
\* restarted and failed lists and the returned ok
Sequence(phase, apps) ==
  [phase |-> phase, apps |-> apps, started |-> <<>>, restarted |-> <<>>, failed |-> <<>>,
   ok |-> FALSE]

\* startEnvListener(key, options): the list of PM2 apps is fixed and the
\* ENV subscription is made.
StartReload(apps) ==
  /\ ~reload.started
  /\ reload' = [reload EXCEPT !.started = TRUE, !.pm2Apps = apps]
  /\ ReloadOnly

\* onEnvValue that calls restartPM2Apps whether or not the reload succeeded
onEnvValueRestartsAnyway(r, loads) ==
  IF r.isFirstEnvSnapshot
    THEN [r EXCEPT !.isFirstEnvSnapshot = FALSE,
                   !.runs = Append(@, Sequence("skipped", <<>>))]
  ELSE IF AppNames(r.pm2Apps) = <<>>
    THEN [r EXCEPT !.runs = Append(@, [Sequence("returned", <<>>) EXCEPT !.ok = TRUE])]
  ELSE [r EXCEPT !.runs = Append(@, Sequence("connect", AppNames(r.pm2Apps)))]

\* onEnvValue(snapshot) up to its first await, with loads telling whether
\* execSync("node ./js-scripts/load-env-from-url.mjs") returned: the first
\* call only clears the flag; a later one runs the reload and, when that did
\* not throw, calls restartPM2Apps(pm2Apps), which returns at once for an
\* empty list and calls pm2.connect otherwise.
onEnvValue(r, loads) ==
  IF r.isFirstEnvSnapshot
    THEN [r EXCEPT !.isFirstEnvSnapshot = FALSE,
                   !.runs = Append(@, Sequence("skipped", <<>>))]
  ELSE IF ~loads
    THEN [r EXCEPT !.runs = Append(@, Sequence("loadfailed", <<>>))]
  ELSE IF AppNames(r.pm2Apps) = <<>>
    THEN [r EXCEPT !.runs = Append(@, [Sequence("returned", <<>>) EXCEPT !.ok = TRUE])]
  ELSE [r EXCEPT !.runs = Append(@, Sequence("connect", AppNames(r.pm2Apps)))]

\* envRef.on("value", (snap) => onEnvValue(snap))
EnvValue(loads) ==
  /\ reload.started
  /\ Len(reload.runs) < MaxCb
  /\ reload' = onEnvValue(reload, loads)
  /\ ReloadOnly

\* The callback of pm2.connect of sequence k: with an error restartPM2Apps
\* throws; without, the loop calls pm2.restart for the first app.
Connected(k, ok) ==
  LET s == reload.runs[k]
  IN  /\ s.phase = "connect"
      /\ reload' =
           IF ok
             THEN [reload EXCEPT !.connected = TRUE,
                                 !.runs[k] = [s EXCEPT !.phase = "restart",
                                                       !.started = <<s.apps[1]>>]]
             ELSE [reload EXCEPT !.runs[k] = [s EXCEPT !.phase = "threw"]]
      /\ ReloadOnly

\* The end of restartPM2Apps: pm2.disconnect() in the finally block and the
\* returned tally of sequence s
Returned(r, k, s) ==
  [r EXCEPT !.connected = FALSE,
            !.runs[k] = [s EXCEPT !.phase = "returned", !.ok = (s.failed = <<>>)]]

\* The callback of pm2.restart after which a failure ends the loop
RestartedStopsAtFailure(k, ok) ==
  LET s == reload.runs[k]
      name == s.apps[Len(s.started)]
      t == IF ok THEN [s EXCEPT !.restarted = Append(@, name)]
           ELSE [s EXCEPT !.failed = Append(@, name)]
  IN  /\ s.phase = "restart"
      /\ reload' =
           IF ok /\ Len(s.started) < Len(s.apps)
             THEN [reload EXCEPT !.runs[k] =
                     [t EXCEPT !.started = Append(@, s.apps[Len(s.started) + 1])]]
             ELSE Returned(reload, k, t)
      /\ ReloadOnly

\* The callback of pm2.restart for the app that sequence k is restarting:
\* the name goes to restarted or, with an error, to failed; then the loop
\* calls pm2.restart for the next app, or the call ends after the last one.
Restarted(k, ok) ==
  LET s == reload.runs[k]
      name == s.apps[Len(s.started)]
      t == IF ok THEN [s EXCEPT !.restarted = Append(@, name)]
           ELSE [s EXCEPT !.failed = Append(@, name)]
  IN  /\ s.phase = "restart"
      /\ reload' =
           IF Len(s.started) < Len(s.apps)
             THEN [reload EXCEPT !.runs[k] =
                     [t EXCEPT !.started = Append(@, s.apps[Len(s.started) + 1])]]
             ELSE Returned(reload, k, t)
      /\ ReloadOnly

\* One envListener process under changes of the ENV config
NextReload ==
  \/ \E apps \in AppLists : StartReload(apps)
  \/ \E loads \in BOOLEAN : EnvValue(loads)
  \/ \E k \in DOMAIN reload.runs, ok \in BOOLEAN : Connected(k, ok)
  \/ \E k \in DOMAIN reload.runs, ok \in BOOLEAN : Restarted(k, ok)

SpecReload == Init /\ [][NextReload]_vars

\* ----------------------------------------------------- keep-job-alive.js
\* Everything but job stays as it is.
JobOnly ==
  UNCHANGED <<registry, now, alive, inflight, op, ret, run, pres, listing, resp,
              lastVal, diff, prev, proc, env, reload, nginx>>

\* process.exit(130) of the SIGINT handler, process.exit(143) of the
\* SIGTERM handler
SignalCode(sig) == IF sig = "SIGINT" THEN 130 ELSE 143

\* process.exit(code)
Exited(j, code) == [j EXCEPT !.pc = "exited", !.exitCode = <<code>>, !.waiting = {}]

\* watchLoop() from the test of its while loop: with stopping set the loop
\* is left, cleanup() returns at once and the process exits in the same
\* turn; otherwise the next pid query is started.
LoopTest(j) ==
  IF j.stopping THEN Exited(j, j.EXIT_CODE_ON_STOP)
  ELSE [j EXCEPT !.pc = "pid", !.polls = @ + 1]

\* watchLoop() after its break: cleanup() sets stopping and sleeps 300 ms,
\* or returns at once when stopping was set, and then the process exits.
LoopBreak(j) ==
  IF j.stopping THEN Exited(j, j.EXIT_CODE_ON_STOP)
  ELSE [j EXCEPT !.pc = "cleanup", !.stopping = TRUE]

\* node keep-job-alive.js with EXIT_CODE_ON_STOP = code: watchLoop() up to
\* its first await
StartJob(code) ==
  /\ job.pc = "off"
  /\ job' = LoopTest([job EXCEPT !.EXIT_CODE_ON_STOP = code])
  /\ JobOnly

\* getPm2Pid() resolves with "0" (stopped is TRUE) or with a pid: the loop
\* breaks or sleeps POLL_INTERVAL_MS.
PidResolved(stopped) ==
  /\ job.pc = "pid"
  /\ stopped \/ job.polls < MaxPoll
  /\ job' = IF stopped THEN LoopBreak([job EXCEPT !.sawStop = TRUE])
            ELSE [job EXCEPT !.pc = "sleep"]
  /\ JobOnly

\* The timer of sleep(POLL_INTERVAL_MS) fires.
SleepDone ==
  /\ job.pc = "sleep"
  /\ job' = LoopTest(job)
  /\ JobOnly

\* The timer of the sleep(300) of the cleanup() that watchLoop() awaits
\* fires: process.exit(EXIT_CODE_ON_STOP).
LoopCleanupDone ==
  /\ job.pc = "cleanup"
  /\ job' = Exited(job, job.EXIT_CODE_ON_STOP)
  /\ JobOnly

\* The handler of sig: cleanup() returns at once when stopping is set and
\* the process exits in the same turn; otherwise it sets stopping and the
\* handler awaits the sleep(300).
Signal(sig) ==
  /\ job.pc \in {"pid", "sleep", "cleanup"}
  /\ \A i \in DOMAIN job.signals : job.signals[i] # sig
  /\ job' = LET got == [job EXCEPT !.signals = Append(@, sig)]
            IN  IF job.stopping THEN Exited(got, SignalCode(sig))
                ELSE [got EXCEPT !.stopping = TRUE, !.waiting = {sig}]
  /\ JobOnly

\* The timer of the sleep(300) of the cleanup() that the handler of sig
\* awaits fires: process.exit(130) or process.exit(143).
HandlerCleanupDone(sig) ==
  /\ job.pc \in {"pid", "sleep", "cleanup"}
  /\ sig \in job.waiting
  /\ job' = Exited(job, SignalCode(sig))
  /\ JobOnly

\* keep-job-alive under the answers of pm2 pid, its timers and signals
NextJob ==
  \/ \E code \in StopCodes : StartJob(code)
  \/ \E stopped \in BOOLEAN : PidResolved(stopped)
  \/ SleepDone
  \/ LoopCleanupDone
  \/ \E sig \in Signals : Signal(sig)
  \/ \E sig \in Signals : HandlerCleanupDone(sig)

SpecJob == Init /\ [][NextJob]_vars

\* ---------------------------------------------------------- run-nginx.mjs
\* Everything but nginx stays as it is.
NginxOnly ==
  UNCHANGED <<registry, now, alive, inflight, op, ret, run, pres, listing, resp,
              lastVal, diff, prev, proc, env, reload, job>>

\* process.exit(code) of run-nginx; the nginx processes it spawned run on
Exits(n, code) == [n EXCEPT !.pc = "exited", !.exitCode = <<code>>]

\* reloadNginx(): execSync("nginx -t ...") throws for a config that nginx
\* rejects, process.kill(pid, "SIGHUP") throws when hup is FALSE (the
\* process is gone by then); TRUE is returned when neither threw.
reloadNginx(conf, hup) == conf = "valid" /\ hup

\* The module's top level and main(), which run in one turn: without a
\* config the process exits with 2; with a live nginx it exits with 0 when
\* the config is the old one or the reload went through; otherwise nginx -t
\* and the foreground nginx are both spawned before main() returns.
main(n, conf, running, configChanged, hup) ==
  LET m == [n EXCEPT !.conf = conf, !.running = running, !.configChanged = configChanged,
                     !.hup = hup]
  IN  IF conf = "missing" THEN Exits(m, 2)
      ELSE IF running /\ ~configChanged THEN Exits(m, 0)
      ELSE IF running /\ reloadNginx(conf, hup) THEN Exits([m EXCEPT !.reloaded = TRUE], 0)
      ELSE [m EXCEPT !.pc = "started", !.test = "running", !.daemon = "running",
                     !.validated = (running /\ conf = "valid")]

\* node run-nginx.mjs
StartNginx(conf, running, configChanged, hup) ==
  /\ nginx.pc = "off"
  /\ nginx' = main(nginx, conf, running, configChanged, hup)
  /\ NginxOnly

\* The "exit" event of nginx -t: code 0 for a config that nginx accepts,
\* on which the handler does nothing, else code 1, on which it calls
\* process.exit(1).
TestExit ==
  /\ nginx.pc = "started"
  /\ nginx.test = "running"
  /\ nginx' = IF nginx.conf = "valid"
                THEN [nginx EXCEPT !.test = "passed"]
                ELSE Exits([nginx EXCEPT !.test = "failed"], 1)
  /\ NginxOnly

\* The ways the foreground nginx ends: with code 0, with code 1, by a signal
DaemonEnds == {"code 0", "code 1", "signal"}

\* The "exit" event of the foreground nginx: with code 1 (always so for a
\* config that nginx rejects) the handler calls process.exit(1), with a
\* signal process.exit(1) as well; with code 0 it does nothing.
DaemonExit(how) ==
  /\ nginx.pc = "started"
  /\ nginx.daemon = "running"
  /\ nginx.conf = "invalid" => how = "code 1"
  /\ nginx' = IF how = "code 0" THEN [nginx EXCEPT !.daemon = how]
              ELSE Exits([nginx EXCEPT !.daemon = how], 1)
  /\ NginxOnly

\* shutdown(sig): nginx.kill("SIGTERM") and process.exit(0)
NginxSignal(sig) ==
  /\ nginx.pc = "started"
  /\ nginx' = Exits([nginx EXCEPT !.daemon = IF @ = "running" THEN "killed" ELSE @,
                                  !.signal = sig], 0)
  /\ NginxOnly

\* run-nginx with any config, with or without a live nginx
NextNginx ==
  \/ \E conf \in Confs, running, configChanged, hup \in BOOLEAN :
       StartNginx(conf, running, configChanged, hup)
  \/ TestExit
  \/ \E how \in DaemonEnds : DaemonExit(how)
  \/ \E sig \in Signals : NginxSignal(sig)

SpecNginx == Init /\ [][NextNginx]_vars

\* The first "value" callback of the process
FirstValue(val) ==
  /\ ~firstSyncLogged
  /\ OnValue(val)

\* A getNextWorker() call among the first MaxRun calls after that callback
CountedNext ==
  /\ firstSyncLogged
  /\ Len(run) < MaxRun
  /\ GetNextWorker

\* The registry from its construction through one "value" callback and the
\* getNextWorker() calls after it
NextFirst ==
  \/ Tick
  \/ \E val \in Snapshots : FirstValue(val)
  \/ CountedNext

SpecFirst == Init /\ [][NextFirst]_vars

\* The server and the feed, with the input of each "value" callback kept
NextLife ==
  \/ \E val \in LifeSnapshots : OnValueLogged(val)
  \/ OnError
  \/ \E path \in Paths, hdr \in RequestIds : HttpRequest(path, hdr)
  \/ \E hdr \in RequestIds : UpgradeRequest(hdr)
  \/ \E q \in BagToSet(inflight) : ForwardDone(q)
  \/ \E q \in BagToSet(inflight) : ForwardFail(q)
  \/ \E q \in BagToSet(inflight) : ClientCancel(q)

SpecLife == Init /\ [][NextLife]_vars

\* Two WorkerPool instances that are given the same value after different
\* values before it.  A callback of the first instance: its value is kept,
\* being the common value if the second instance starts next.
FirstReconciles(val) ==
  LET all == IF val.isNull THEN <<>> ELSE val.entries
  IN  /\ op \in {"init", "value"}
      /\ Synced(syncFromObject(workers, sortedKeys, currentIndex, all, now))
      /\ op' = "value"
      /\ lastVal' = val
      /\ UNCHANGED <<now, proc, env, reload, job, nginx, alive, inflight, ret, run, pres,
            listing, resp, diff, prev>>

\* The second instance is constructed; of the first, the records in the
\* order of its sortedKeys are kept.
SecondStarts ==
  /\ op = "value"
  /\ listing' = [i \in 1..Len(sortedKeys) |-> MapGet(workers, sortedKeys[i])]
  /\ workers' = <<>>
  /\ sortedKeys' = <<>>
  /\ currentIndex' = 0
  /\ firstSyncLogged' = FALSE
  /\ op' = "second"
  /\ UNCHANGED <<now, proc, env, reload, job, nginx, alive, inflight, ret, run, pres, resp,
            lastVal, diff, prev>>

\* A callback of the second instance before the common value
SecondHistory(val) ==
  LET all == IF val.isNull THEN <<>> ELSE val.entries
  IN  /\ op \in {"second", "history"}
      /\ Synced(syncFromObject(workers, sortedKeys, currentIndex, all, now))
      /\ op' = "history"
      /\ UNCHANGED <<now, proc, env, reload, job, nginx, alive, inflight, ret, run, pres,
            listing, resp, lastVal, diff, prev>>

\* The second instance's callback for the common value
SecondReconciles ==
  LET all == IF lastVal.isNull THEN <<>> ELSE lastVal.entries
  IN  /\ op \in {"second", "history"}
      /\ Synced(syncFromObject(workers, sortedKeys, currentIndex, all, now))
      /\ op' = "both"
      /\ UNCHANGED <<now, proc, env, reload, job, nginx, alive, inflight, ret, run, pres,
            listing, resp, lastVal, diff, prev>>

NextTwo ==
  \/ \E val \in NumericSnapshots : FirstReconciles(val)
  \/ SecondStarts
  \/ \E val \in HistorySnapshots : SecondHistory(val)
  \/ SecondReconciles

SpecTwo == Init /\ [][NextTwo]_vars

\* ------------------------------------------------------------ properties
\* The latest n entries of a window
Latest(window, n) == SubSeq(window, Len(window) - n + 1, Len(window))

\* The key under the cursor, NoVal when there is none
CurrentKey == IF currentIndex < Len(sortedKeys) THEN sortedKeys[currentIndex + 1] ELSE NoVal

\* A step that is a "value" callback (Tick is the step that changes now)
ValueStep == op' = "value" /\ now' = now

\* A step that is a getNextWorker() call
NextStep == op' = "next" /\ now' = now

\* C1: a "value" callback that delivers the value of the callback before it
\* computes an empty diff and leaves sortedKeys and currentIndex as they were.
C1_SecondSyncIsNoOp ==
  [][ (op = "value" /\ ValueStep /\ lastVal' = lastVal)
        => (diff' = NoDiff /\ sortedKeys' = sortedKeys /\ currentIndex' = currentIndex) ]_vars

\* C2: after a "value" callback no key that the value carries with a missing
\* or empty url is in the Map or in sortedKeys.
C2_InvalidUrlIsAbsent ==
  (op = "value" /\ ~lastVal.isNull)
    => \A k \in DOMAIN lastVal.entries :
         Falsy(lastVal.entries[k].url)
           => ~MapHas(workers, k) /\ k \notin SeqRange(sortedKeys)

\* C3: when the key that was under the cursor before a "value" callback is
\* still in the Map after it, the cursor is at that key's position in the
\* recomputed sortedKeys.
C3_CursorFollowsKey ==
  (op = "value" /\ prev.key # NoVal /\ MapHas(workers, prev.key))
    => /\ CurrentKey = prev.key
       /\ currentIndex = IndexOf(sortedKeys, prev.key)

\* A callback moved the key under the cursor to another position, adding or
\* removing other keys, and the cursor went with it.
C3_Witness ==
  /\ op = "value"
  /\ prev.key # NoVal
  /\ MapHas(workers, prev.key)
  /\ currentIndex # prev.index
  /\ CurrentKey = prev.key
  /\ (diff.added # <<>> \/ diff.removed # <<>>)

\* C4 as stated: when the key that was under the cursor does not survive the
\* callback, an old index that is in range of the new sortedKeys is kept, and
\* one that is out of range becomes 0.
C4_OldIndexKeptInRange ==
  (op = "value" /\ prev.key # NoVal /\ ~MapHas(workers, prev.key))
    => currentIndex = (IF prev.index < Len(sortedKeys) THEN prev.index ELSE 0)

\* C4 amended: when the key that was under the cursor does not survive the
\* callback, the cursor is 0, also when the old index is in range.
C4_LostKeyResetsCursor ==
  (op = "value" /\ prev.key # NoVal /\ ~MapHas(workers, prev.key))
    => currentIndex = 0

\* The key under a cursor of 1 or more was removed and the old index is
\* still in range of the new sortedKeys.
C4_Witness ==
  /\ op = "value"
  /\ prev.key # NoVal
  /\ ~MapHas(workers, prev.key)
  /\ prev.index > 0
  /\ prev.index < Len(sortedKeys)
  /\ currentIndex = 0

\* C5: the cursor is an index into sortedKeys, and 0 when sortedKeys is empty.
C5_CursorInBounds ==
  /\ currentIndex >= 0
  /\ Len(sortedKeys) > 0 => currentIndex < Len(sortedKeys)
  /\ Len(sortedKeys) = 0 => currentIndex = 0

\* getNextWorker() at the last index wrapped around to 0.
C5_Witness ==
  /\ op = "next"
  /\ Len(sortedKeys) = 3
  /\ Len(run) = 3
  /\ run[3] = sortedKeys[3]
  /\ currentIndex = 0

\* C6: every record of the Map has a url that is neither missing nor empty,
\* and every key of sortedKeys is the key of such a record.
C6_EveryRecordHasUrl ==
  /\ \A i \in 1..Len(workers) : ~Falsy(workers[i].url)
  /\ \A i \in 1..Len(sortedKeys) :
       MapHas(workers, sortedKeys[i]) /\ ~Falsy(MapGet(workers, sortedKeys[i]).url)

\* A value with an entry without url was synced and records are registered.
C6_Witness ==
  /\ op = "value"
  /\ ~lastVal.isNull
  /\ \E k \in DOMAIN lastVal.entries : Falsy(lastVal.entries[k].url)
  /\ Len(workers) >= 2

\* sortedKeys is ascending by the upload_at of the records
SortedAscending ==
  \A i, j \in 1..Len(sortedKeys) :
    i < j => MapGet(workers, sortedKeys[i]).upload_at <= MapGet(workers, sortedKeys[j]).upload_at

\* C7 as stated: N consecutive getNextWorker() calls on a registry of size N
\* return the keys in ascending upload_at order, each once.
C7_RunIsAscending ==
  (op = "next" /\ Len(sortedKeys) > 0 /\ Len(run) >= Len(sortedKeys))
    => SortedAscending /\ Latest(run, Len(sortedKeys)) = sortedKeys

\* C7 amended: N consecutive getNextWorker() calls on a registry of size N
\* return every key once, in the ascending upload_at order read cyclically
\* from the key that was under the cursor at the first call.
C7_RunIsRotation ==
  (op = "next" /\ Len(sortedKeys) > 0 /\ Len(run) >= Len(sortedKeys))
    => LET n == Len(sortedKeys)
           w == Latest(run, n)
       IN  /\ SortedAscending
           /\ SeqRange(w) = SeqRange(sortedKeys)
           /\ \A i, j \in 1..n : i # j => w[i] # w[j]
           /\ \A i \in 1..n : w[i] = sortedKeys[((IndexOf(sortedKeys, w[1]) + i - 1) % n) + 1]

\* Three calls on a registry of three, the first of them with the cursor not at 0.
C7_Witness ==
  /\ op = "next"
  /\ Len(sortedKeys) = 3
  /\ Len(run) = 3
  /\ run[1] # sortedKeys[1]

\* C8: getNextWorker() on a non-empty registry returns the record of the key
\* under the cursor and moves the cursor to (cursor + 1) mod length; on an
\* empty registry it returns null and changes nothing of the registry.
C8_NextReturnsAndAdvances ==
  [][ NextStep =>
        /\ workers' = workers
        /\ sortedKeys' = sortedKeys
        /\ IF Len(sortedKeys) = 0
             THEN ret' = NullWorker /\ currentIndex' = currentIndex
             ELSE /\ ret' # NullWorker
                  /\ ret'.key = sortedKeys[currentIndex + 1]
                  /\ ret' = MapGet(workers, ret'.key)
                  /\ currentIndex' = (currentIndex + 1) % Len(sortedKeys) ]_vars

\* A call returned the second of at least two records.
C8_Witness ==
  /\ op = "next"
  /\ Len(sortedKeys) >= 2
  /\ ret # NullWorker
  /\ ret.key = sortedKeys[2]
  /\ currentIndex = 2 % Len(sortedKeys)

\* C9: whatever requests and upgrades are being forwarded, the getNextWorker()
\* calls made since the last feed callback that lie within one cycle of
\* sortedKeys found pairwise different cursor values, each the successor of
\* the one before, and returned pairwise different workers.
C9_NoCursorSeenTwiceInCycle ==
  Len(sortedKeys) > 0 =>
    LET n == Len(sortedKeys)
        m == IF Len(pres) < n THEN Len(pres) ELSE n
        c == Latest(pres, m)
        k == Latest(run, m)
    IN  /\ Len(run) = Len(pres)
        /\ \A i, j \in 1..m : i # j => c[i] # c[j] /\ k[i] # k[j]
        /\ \A i \in 1..m : c[i] \in 0..(n - 1) /\ k[i] = sortedKeys[c[i] + 1]
        /\ \A i \in 1..(m - 1) : c[i + 1] = (c[i] + 1) % n

\* An HTTP request and an upgrade are being forwarded at the same time, to
\* different workers, after two dispatches in a row.
C9_Witness ==
  /\ op \in {"http", "upgrade"}
  /\ Len(pres) >= 2
  /\ BagCardinality(inflight) = 2
  /\ \E p, q \in BagToSet(inflight) :
       p.kind = "http" /\ q.kind = "upgrade" /\ p.worker # q.worker

\* C10: a request that is not a health request, and an upgrade, moves the
\* cursor by exactly one position when the registry is not empty and hands
\* one request to the worker that was under the cursor; the end of a forwarded
\* request, its failure included, moves no cursor and forwards nothing anew.
C10_OneRotationPerRequest ==
  [][ /\ op' \in {"http", "upgrade"} =>
           IF Len(sortedKeys) = 0
             THEN currentIndex' = currentIndex /\ inflight' = inflight
             ELSE /\ currentIndex' = (currentIndex + 1) % Len(sortedKeys)
                  /\ inflight' = inflight (+)
                       SetToBag({Forwarded(op', MapGet(workers, sortedKeys[currentIndex + 1]))})
      /\ op' \in {"done", "fail", "cancel"} =>
           /\ currentIndex' = currentIndex
           /\ run' = run
           /\ BagCardinality(inflight') = BagCardinality(inflight) - 1
           /\ \A q \in BagToSet(inflight') : CopiesIn(q, inflight') <= CopiesIn(q, inflight)
    ]_vars

\* Forwarding an HTTP request failed while another request was being
\* forwarded and two or more workers were registered.
C10_Witness ==
  /\ op = "fail"
  /\ resp.kind = "http"
  /\ Len(sortedKeys) >= 2
  /\ BagCardinality(inflight) >= 1
  /\ Len(run) >= 2

\* C11: the end of a forwarded request, be it the worker's answer, a failure
\* of forwarding or the client going away, leaves the Map, sortedKeys and
\* currentIndex as they were: the cursor is neither put back nor advanced.
C11_EndOfRequestKeepsRegistry ==
  [][ op' \in {"done", "fail", "cancel"} =>
        /\ workers' = workers
        /\ sortedKeys' = sortedKeys
        /\ currentIndex' = currentIndex ]_vars

\* The client of a forwarded request went away while two or more workers
\* were registered, the cursor having moved on from that request's worker.
C11_Witness ==
  /\ op = "cancel"
  /\ Len(sortedKeys) >= 2
  /\ currentIndex # 0
  /\ Len(run) >= 1

\* C12: a request on a health path takes no worker and forwards nothing: it
\* leaves the Map, sortedKeys and currentIndex, the requests being forwarded
\* and the record of the getNextWorker() calls as they were, so the worker
\* the next dispatch gets is the one it would have got without it.
C12_HealthTakesNoRotation ==
  [][ op' = "health" =>
        /\ workers' = workers
        /\ sortedKeys' = sortedKeys
        /\ currentIndex' = currentIndex
        /\ inflight' = inflight
        /\ run' = run
        /\ pres' = pres
        /\ getNextWorker(workers', sortedKeys', currentIndex')
             = getNextWorker(workers, sortedKeys, currentIndex) ]_vars

\* A health request was answered between dispatches, with a request being
\* forwarded and the cursor in the middle of a cycle.
C12_Witness ==
  /\ op = "health"
  /\ resp.status = 200
  /\ Len(sortedKeys) >= 2
  /\ currentIndex # 0
  /\ Len(run) >= 1
  /\ BagCardinality(inflight) >= 1

\* C13: a health request is answered with status 200 and a body whose
\* workers list has the keys of getAllWorkers() in its order and whose
\* total_workers is size(); with an empty registry the list is empty and
\* total_workers is 0.
C13_HealthReportsRegistry ==
  op = "health" =>
    /\ resp.status = 200
    /\ [i \in 1..Len(resp.workers) |-> resp.workers[i].key] = MapKeys(getAllWorkers(workers))
    /\ resp.total_workers = size(workers)
    /\ Len(workers) = 0 => (resp.workers = <<>> /\ resp.total_workers = 0)

\* C14: a request that is not a health request and finds the registry empty
\* is answered with 503 and the body {error, message, request_id}, where
\* request_id is the x-request-id the caller sent and a generated one when it
\* sent none (or an empty one); nothing is forwarded and the cursor stays 0.
C14_EmptyRegistryGives503 ==
  [][ \A path \in Paths \ HealthPaths, hdr \in RequestIds :
        (HttpRequest(path, hdr) /\ Len(sortedKeys) = 0) =>
          /\ op' = "http"
          /\ resp'.status = 503
          /\ resp'.error = "Service Unavailable"
          /\ resp'.request_id = (IF hdr \in {NoVal, ""} THEN "uuid-v4" ELSE hdr)
          /\ inflight' = inflight
          /\ currentIndex = 0
          /\ currentIndex' = 0 ]_vars

\* A request got 503 with its own request id after the registry had been
\* synced and emptied, while an earlier request was still being forwarded.
C14_Witness ==
  /\ op = "http"
  /\ resp.status = 503
  /\ resp.request_id = "rid-1"
  /\ firstSyncLogged
  /\ BagCardinality(inflight) >= 1

\* C15: an upgrade request that finds the registry empty has its socket
\* destroyed: no status line or body is written to it, nothing is forwarded
\* and the registry stays as it was.
C15_EmptyRegistryDestroysUpgrade ==
  [][ (op' = "upgrade" /\ Len(sortedKeys) = 0) =>
        /\ resp'.destroyed
        /\ resp'.status = 0
        /\ resp'.error = ""
        /\ resp'.request_id = ""
        /\ inflight' = inflight
        /\ workers' = workers /\ sortedKeys' = sortedKeys /\ currentIndex' = currentIndex
        /\ alive' ]_vars

\* The socket of an upgrade request was destroyed after the registry had
\* been synced and emptied, while an earlier request was still being forwarded.
C15_Witness ==
  /\ op = "upgrade"
  /\ resp.destroyed
  /\ Len(sortedKeys) = 0
  /\ firstSyncLogged
  /\ BagCardinality(inflight) >= 1

\* C16: when forwarding an HTTP request fails before a response was started,
\* its client is answered with 502 and the body {error: "Bad Gateway",
\* message, request_id} carrying the request id of that request.
C16_ForwardFailureGives502 ==
  (op = "fail" /\ resp.kind = "http") =>
    /\ resp.status = 502
    /\ resp.error = "Bad Gateway"
    /\ resp.request_id \in {"rid-1", "uuid-v4"}

\* C17: when forwarding an upgrade request fails, its socket is closed
\* without a status line or body written to it, and the process keeps
\* running.
C17_UpgradeFailureIsNotFatal ==
  (op = "fail" /\ resp.kind = "upgrade") =>
    /\ alive
    /\ resp.status = 0
    /\ resp.error = ""
    /\ resp.destroyed

\* C18: the error callback of the feed leaves the Map, sortedKeys and
\* currentIndex as they were, and a step that changes the Map or sortedKeys
\* is a "value" callback.
C18_FeedErrorKeepsRegistry ==
  [][ /\ op' = "error" =>
           /\ workers' = workers
           /\ sortedKeys' = sortedKeys
           /\ currentIndex' = currentIndex
           /\ alive'
      /\ (workers' # workers \/ sortedKeys' # sortedKeys) => op' = "value" ]_vars

\* The error callback ran on a registry of two or more workers with the
\* cursor in the middle of a cycle.
C18_Witness ==
  /\ op = "error"
  /\ Len(workers) >= 2
  /\ Len(sortedKeys) >= 2
  /\ currentIndex # 0

\* The entries of the value the last "value" callback was given
LastEntries == IF lastVal.isNull THEN <<>> ELSE lastVal.entries

\* C19: after a "value" callback every key the value carries with a url is
\* in the Map with the url of the value, the upload_at read from it (the
\* number, the time of the date text, else the time of the callback), its
\* version and runner_by or "unknown" for each that is missing, and no key
\* that the value does not carry is in the Map or in sortedKeys.
C19_ReconcileInstallsSnapshot ==
  [][ ValueStep =>
        /\ \A k \in DOMAIN LastEntries' :
             LET raw == LastEntries'[k]
                 at == CASE raw.upload_at.form = "number" -> raw.upload_at.val
                         [] raw.upload_at.form = "string" /\ raw.upload_at.val # NaN
                              -> raw.upload_at.val
                         [] OTHER -> now
             IN  raw.url \notin {NoVal, ""} =>
                   /\ MapHas(workers', k)
                   /\ k \in SeqRange(sortedKeys')
                   /\ MapGet(workers', k) =
                        [ key |-> k,
                          url |-> raw.url,
                          upload_at |-> at,
                          version |-> IF raw.version \in {NoVal, ""}
                                        THEN "unknown" ELSE raw.version,
                          runner_by |-> IF raw.runner_by \in {NoVal, ""}
                                          THEN "unknown" ELSE raw.runner_by ]
        /\ \A i \in 1..Len(workers') : workers'[i].key \in DOMAIN LastEntries'
        /\ \A i \in 1..Len(sortedKeys') : sortedKeys'[i] \in DOMAIN LastEntries' ]_vars

\* A callback removed a key, added another and stored, next to a plain
\* entry, one without labels whose upload_at was read from the clock.
C19_Witness ==
  /\ op = "value"
  /\ diff.removed # <<>>
  /\ diff.added # <<>>
  /\ Len(workers) >= 2
  /\ \E k \in DOMAIN LastEntries :
       /\ LastEntries[k].upload_at.form = "sv"
       /\ MapHas(workers, k)
       /\ MapGet(workers, k).version = "unknown"

\* C20: a "value" callback with null or with an object without entries
\* leaves the Map and sortedKeys empty and the cursor at 0, whatever was
\* registered before; the process runs on and getNextWorker() returns null
\* without moving the cursor.
C20_EmptyValueEmptiesRegistry ==
  (op = "value" /\ DOMAIN LastEntries = {}) =>
    /\ workers = <<>>
    /\ sortedKeys = <<>>
    /\ currentIndex = 0
    /\ alive
    /\ getNextWorker(workers, sortedKeys, currentIndex) =
         [worker |-> NullWorker, currentIndex |-> 0]

\* A null value emptied a registry of two or more workers whose cursor was
\* in the middle of a cycle.
C20_Witness ==
  /\ op = "value"
  /\ lastVal.isNull
  /\ Len(diff.removed) >= 2
  /\ prev.key # NoVal
  /\ prev.index > 0
  /\ workers = <<>>

\* C21: between callbacks sortedKeys lists every key of the Map once and no
\* other key, in ascending order of the records' upload_at, so its length is
\* size().
C21_SequenceMatchesMap ==
  /\ Len(sortedKeys) = size(workers)
  /\ SeqRange(sortedKeys) = SeqRange(MapKeys(workers))
  /\ \A i, j \in 1..Len(sortedKeys) : i # j => sortedKeys[i] # sortedKeys[j]
  /\ \A i, j \in 1..Len(workers) : i # j => workers[i].key # workers[j].key
  /\ SortedAscending

\* Three workers are registered in an order of insertion that is not their
\* order of upload_at.
C21_Witness ==
  /\ op = "value"
  /\ Len(sortedKeys) = 3
  /\ sortedKeys # MapKeys(workers)
  /\ \E i \in 1..2 : MapGet(workers, sortedKeys[i]).upload_at
                       < MapGet(workers, sortedKeys[i + 1]).upload_at

\* C22: getAllWorkers() returns the record of every key of sortedKeys, in
\* the order of sortedKeys and so ascending by upload_at, a result in which
\* the cursor has no part, and leaves the Map, sortedKeys and currentIndex
\* as they were.
C22_ListingFollowsSequence ==
  [][ (op' = "all" /\ now' = now) =>
        /\ listing' = [i \in 1..Len(sortedKeys) |-> MapGet(workers, sortedKeys[i])]
        /\ \A i, j \in 1..Len(listing') :
             i < j => listing'[i].upload_at <= listing'[j].upload_at
        /\ workers' = workers
        /\ sortedKeys' = sortedKeys
        /\ currentIndex' = currentIndex ]_vars

\* The three records were listed in an order that is not the Map's order of
\* insertion, with the cursor in the middle of a cycle.
C22_Witness ==
  /\ op = "all"
  /\ Len(listing) = 3
  /\ listing # workers
  /\ currentIndex # 0

\* The keys of a Map
KeySet(ws) == SeqRange(MapKeys(ws))

\* A list without a repeated entry
NoRepeat(s) == \A i, j \in 1..Len(s) : i # j => s[i] # s[j]

\* C23: the lists a "value" callback computes are exact: added holds the keys
\* the value carries with a url that were not in the Map before, removed the
\* keys that were in the Map before and are not after, updated the keys that
\* are in the Map before and after with a record that differs in url,
\* upload_at, version or runner_by; no key is in two lists or twice in one,
\* and sortedKeys and currentIndex are what _resort() makes of the new Map.
C23_DiffIsExact ==
  [][ ValueStep =>
        /\ SeqRange(diff'.added) = KeySet(workers') \ KeySet(workers)
        /\ SeqRange(diff'.added) =
             { k \in DOMAIN LastEntries' :
                 LastEntries'[k].url \notin {NoVal, ""} /\ k \notin KeySet(workers) }
        /\ SeqRange(diff'.removed) = KeySet(workers) \ KeySet(workers')
        /\ SeqRange(diff'.updated) =
             { k \in KeySet(workers) \cap KeySet(workers') :
                 LET a == MapGet(workers, k)
                     b == MapGet(workers', k)
                 IN  \/ a.url # b.url
                     \/ a.upload_at # b.upload_at
                     \/ a.version # b.version
                     \/ a.runner_by # b.runner_by }
        /\ NoRepeat(diff'.added \o diff'.removed \o diff'.updated)
        /\ sortedKeys' = MapKeys(SortByUploadAt(workers'))
        /\ currentIndex' = resort(workers', sortedKeys, currentIndex).currentIndex ]_vars

\* One callback added a key, removed another and updated a third.
C23_Witness ==
  /\ op = "value"
  /\ diff.added # <<>>
  /\ diff.removed # <<>>
  /\ diff.updated # <<>>

\* C24: after the first "value" callback of a process has registered n
\* workers, the k-th getNextWorker() call returns the key at index
\* (k - 1) mod n of sortedKeys, which is ascending by upload_at; w1 with the
\* later and w2 with the earlier upload_at give <<w2, w1>> and w2, w1, w2.
C24_FirstRunStartsAtOldest ==
  (firstSyncLogged /\ Len(sortedKeys) > 0) =>
    /\ SortedAscending
    /\ Len(sortedKeys) = Len(workers)
    /\ currentIndex = Len(run) % Len(sortedKeys)
    /\ \A k \in 1..Len(run) : run[k] = sortedKeys[((k - 1) % Len(sortedKeys)) + 1]

\* w1 with upload_at 2 and w2 with upload_at 1 were registered by the first
\* callback and three calls returned w2, w1, w2.
C24_Witness ==
  /\ op = "next"
  /\ MapKeys(workers) = <<"w1", "w2">>
  /\ MapGet(workers, "w1").upload_at = 2
  /\ MapGet(workers, "w2").upload_at = 1
  /\ sortedKeys = <<"w2", "w1">>
  /\ run = <<"w2", "w1", "w2">>

\* The value of the step carries exactly the keys of the Map, each with a
\* url and with the upload_at its record has.
SameKeysAndTimes ==
  /\ DOMAIN LastEntries' = KeySet(workers)
  /\ \A k \in DOMAIN LastEntries' :
       /\ LastEntries'[k].url \notin {NoVal, ""}
       /\ normalizeUploadAt(LastEntries'[k].upload_at, now) = MapGet(workers, k).upload_at

\* C25: a "value" callback whose value differs from the registry only in the
\* url, version or runner_by of keys that are registered overwrites those
\* records where they are: the Map's keys and their order, sortedKeys and
\* currentIndex stay as they were, every record has the fields of the value,
\* and getNextWorker() returns the key under the cursor with its new url.
C25_UpdateInPlace ==
  [][ (ValueStep /\ SameKeysAndTimes) =>
        /\ MapKeys(workers') = MapKeys(workers)
        /\ sortedKeys' = sortedKeys
        /\ currentIndex' = currentIndex
        /\ \A k \in KeySet(workers) :
             /\ MapGet(workers', k).url = LastEntries'[k].url
             /\ MapGet(workers', k).version = OrElse(LastEntries'[k].version, "unknown")
             /\ MapGet(workers', k).runner_by = OrElse(LastEntries'[k].runner_by, "unknown")
        /\ Len(sortedKeys) > 0 =>
             LET g == getNextWorker(workers', sortedKeys', currentIndex')
             IN  /\ g.worker.key = sortedKeys[currentIndex + 1]
                 /\ g.worker.url = LastEntries'[g.worker.key].url ]_vars

\* The callback gave the key under a cursor in the middle of a cycle another
\* url and labels, with the keys and every upload_at as before.
C25_Witness ==
  /\ op = "value"
  /\ diff.added = <<>>
  /\ diff.removed = <<>>
  /\ diff.updated = <<prev.key>>
  /\ prev.index > 0
  /\ Len(sortedKeys) = 3
  /\ DOMAIN LastEntries = KeySet(workers)
  /\ CurrentKey = prev.key
  /\ MapGet(workers, prev.key).url = "http://h2"
  /\ \A i, j \in 1..3 : workers[i].upload_at = workers[j].upload_at

\* C26: a key enters the Map only in a "value" callback whose value carries
\* it with a url; a key of the Map stays in it through a callback whose
\* value carries it; a key leaves the Map only in a callback
\* whose value does not carry it, and then it does leave; a request, a
\* health request, the end of a forwarded request and the feed's error
\* callback leave the keys of the Map and sortedKeys as they were.
C26_KeyLifecycle ==
  [][ /\ ValueStep =>
           \A k \in Keys :
             /\ (~MapHas(workers, k) /\ MapHas(workers', k)) =>
                  (k \in DOMAIN LastEntries' /\ LastEntries'[k].url \notin {NoVal, ""})
             /\ (MapHas(workers, k) /\ k \in DOMAIN LastEntries') =>
                  (MapHas(workers', k) /\ k \in SeqRange(sortedKeys'))
             /\ (MapHas(workers, k) /\ ~MapHas(workers', k)) => k \notin DOMAIN LastEntries'
             /\ k \notin DOMAIN LastEntries' => ~MapHas(workers', k)
      /\ op' # "value" =>
           (MapKeys(workers') = MapKeys(workers) /\ sortedKeys' = sortedKeys) ]_vars

\* A callback removed w1, which its value did not carry, and added another
\* key, while a request was being forwarded to w1.
C26_Witness ==
  /\ op = "value"
  /\ "w1" \in SeqRange(diff.removed)
  /\ diff.added # <<>>
  /\ BagCardinality(inflight) >= 1
  /\ \E q \in BagToSet(inflight) : q.worker = "w1"

\* C27 as stated: two instances that were given different values before and
\* then the same value with numeric upload_at, equal ones included, have
\* the same sortedKeys.
C27_SameValueSameSequence ==
  op = "both" => sortedKeys = MapKeys(listing)

\* No two entries of the common value have the same upload_at
DistinctTimes ==
  \A j, k \in DOMAIN LastEntries :
    j # k => LastEntries[j].upload_at.val # LastEntries[k].upload_at.val

\* C27 amended: two instances that were given different values before and
\* then the same value, every entry with a url and a numeric upload_at and
\* no two entries with the same upload_at, have the same sortedKeys.
C27_DistinctTimesSameSequence ==
  (op = "both" /\ DistinctTimes) => sortedKeys = MapKeys(listing)

\* Both instances have the same sortedKeys for a common value of three keys
\* with three upload_at values, a sortedKeys that is not the order of the
\* keys, the second instance having inserted them in yet another order.
C27_Witness ==
  /\ op = "both"
  /\ DistinctTimes
  /\ Len(sortedKeys) = 3
  /\ sortedKeys = MapKeys(listing)
  /\ sortedKeys # KeyOrder
  /\ MapKeys(workers) # KeyOrder

\* C28: a process started with a credential that is missing or cannot be
\* decoded has exited with a non-zero code, never subscribed to the feed and
\* never listened; a server that listens has its feed subscription registered.
C28_BadCredentialIsFatal ==
  /\ proc.listening => proc.subscribed
  /\ (proc.cred # "valid" /\ proc.pc # "cold") =>
       /\ proc.pc = "exited"
       /\ ~alive
       /\ proc.exitCode # NoExit
       /\ proc.exitCode[1] # 0
       /\ ~proc.subscribed
       /\ ~proc.listening
       /\ workers = <<>>
       /\ inflight = EmptyBag

\* start() has run with a credential that cannot be decoded
C28_Witness ==
  /\ proc.cred = "garbled"
  /\ proc.pc = "exited"

\* C29: a request or upgrade that is forwarded carries, as its target and as
\* its x-proxy-worker and x-proxy-worker-version headers, the url, key and
\* version of the one record that its own getNextWorker() call returned (the
\* registry's record under the cursor at that moment), and a callback of the
\* feed changes nothing of the requests that are being forwarded.
C29_HeadersAndTargetOfOwnRecord ==
  [][ /\ (op' \in {"http", "upgrade"} /\ ret' # NullWorker) =>
           LET w == MapGet(workers, sortedKeys[currentIndex + 1])
           IN  /\ ret' = w
               /\ inflight' = inflight (+) SetToBag({[kind |-> op', target |-> w.url,
                                                      worker |-> w.key,
                                                      version |-> w.version]})
      /\ op' \in {"value", "error"} => inflight' = inflight ]_vars

\* Two requests are being forwarded after callbacks of the feed: the worker
\* of one is registered under another url and version by now, the worker of
\* the other is not registered any more.
C29_Witness ==
  /\ op = "value"
  /\ \E q \in BagToSet(inflight) :
       /\ MapHas(workers, q.worker)
       /\ MapGet(workers, q.worker).url # q.target
       /\ MapGet(workers, q.worker).version # q.version
  /\ \E q \in BagToSet(inflight) : ~MapHas(workers, q.worker)

\* Every write of activeInstanceId was applied, every started instance got
\* through its registration, no listener has a call to come and no instance
\* is between safeExit() and process.exit().
EnvQuiet ==
  /\ env.pending = {}
  /\ \E i \in Instances : env.inst[i].pc # "off"
  /\ \A i \in Instances :
       LET r == env.inst[i]
       IN  /\ r.reg # "failed"
           /\ r.pc = "running" =>
                /\ r.reg = "done"
                /\ ~r.exiting
                /\ r.listening => r.view = Visible(i)

\* The instances that are running
Running == { i \in Instances : env.inst[i].pc = "running" }

\* C30: once every write of activeInstanceId and every call of a listener
\* has been delivered, and no registration failed, exactly one envListener
\* instance is running and activeInstanceId holds its id.
C30_SingleActiveInstance ==
  EnvQuiet => Running = {env.active}

\* C33: every key of the ordered sequence that a dispatch sees is a key of
\* the Map, so a request or an upgrade that was given no worker (answered
\* 503, or its socket destroyed) found size() = 0.
C33_NoWorkerOnlyWhenEmpty ==
  /\ \A i \in 1..Len(sortedKeys) : MapHas(workers, sortedKeys[i])
  /\ (op \in {"http", "upgrade"} /\ (ret = NullWorker \/ resp.status = 503 \/ resp.destroyed)) =>
       size(workers) = 0

\* A request was given a worker after a callback of the feed had removed
\* the worker that an earlier request is still being forwarded to.
C33_Witness ==
  /\ op \in {"http", "upgrade"}
  /\ ret # NullWorker
  /\ size(workers) > 0
  /\ \E q \in BagToSet(inflight) : ~MapHas(workers, q.worker)

\* Key a stands before key b in the sequence s
Before(s, a, b) == IndexOf(s, a) >= 0 /\ IndexOf(s, b) >= 0 /\ IndexOf(s, a) < IndexOf(s, b)

\* C34: after every callback of the feed, two records of equal upload_at
\* stand in the ordered sequence in the order in which the Map holds them
\* (the order in which their keys were registered), and two keys that stay
\* registered with the same equal upload_at keep the relative order they
\* had before the callback.
C34_TiesKeepOriginalOrder ==
  [][ op' = "value" =>
        LET n == Len(workers')
            was == [i \in 1..n |-> IF MapHas(workers, workers'[i].key)
                                     THEN MapGet(workers, workers'[i].key).upload_at
                                     ELSE NaN]
            old == [i \in 1..n |-> IndexOf(sortedKeys, workers'[i].key)]
            new == [i \in 1..n |-> IndexOf(sortedKeys', workers'[i].key)]
        IN  \A i, j \in 1..n :
              (i # j /\ workers'[i].upload_at = workers'[j].upload_at) =>
                /\ i < j => new[i] < new[j]
                /\ (/\ was[i] = workers'[i].upload_at
                    /\ was[j] = workers'[j].upload_at
                    /\ old[i] < old[j]) => new[i] < new[j] ]_vars

\* Two records of equal upload_at stand in the sequence against the order
\* of their keys, behind a record of a smaller upload_at, after a callback
\* that changed one of the two and kept its upload_at.
C34_Witness ==
  /\ op = "value"
  /\ Len(sortedKeys) = 3
  /\ diff.updated # <<>>
  /\ \E a, b \in KeySet(workers) :
       /\ MapGet(workers, a).upload_at = MapGet(workers, b).upload_at
       /\ Before(KeyOrder, b, a)
       /\ Before(sortedKeys, a, b)
       /\ \E c \in KeySet(workers) :
            MapGet(workers, c).upload_at < MapGet(workers, a).upload_at

\* C35: the registry is empty until a callback of the feed leaves it with a
\* record (only such a callback changes it), and from the moment the server
\* listens an HTTP request for another path than the health path is
\* answered 503 exactly when the registry is empty: always before that
\* callback, never while the registry holds a record.
C35_Answers503UntilFirstWorker ==
  [][ /\ workers' # workers => op' = "value"
      /\ ~firstSyncLogged => size(workers) = 0
      /\ \A path \in Paths \ HealthPaths, hdr \in RequestIds :
           HttpRequest(path, hdr) =>
             /\ proc.listening
             /\ (size(workers) = 0) <=> (resp'.status = 503)
             /\ (size(workers) = 0) => inflight' = inflight
             /\ (size(workers) > 0) => inflight' # inflight ]_vars

\* The server listens and answers 503 to a request before the first value
\* of the feed has arrived.
C35_Witness ==
  /\ proc.pc = "serving"
  /\ ~firstSyncLogged
  /\ op = "http"
  /\ resp.status = 503

\* C36: an instance that called safeExit() because its listener saw another
\* instance's id does not write its own id to activeInstanceId afterwards.
C36_NoWriteAfterTakeover ==
  [][ \A i \in Instances :
        (env.inst[i].exiting /\ env.inst[i].reg # "failed") =>
          (i \in env'.pending => i \in env.pending) ]_vars

FullTally(s) ==
  /\ Len(s.restarted) + Len(s.failed) = Len(s.apps)
  /\ \A name \in SeqRange(s.apps) :
       Cardinality({i \in DOMAIN s.apps : s.apps[i] = name})
         = Cardinality({i \in DOMAIN s.restarted : s.restarted[i] = name})
           + Cardinality({i \in DOMAIN s.failed : s.failed[i] = name})

\* pm2.restart was called for the apps of s in the list's order, for each
\* one after the call for the one before it had ended.
OneByOne(s) ==
  /\ Len(s.started) <= Len(s.apps)
  /\ s.started = SubSeq(s.apps, 1, Len(s.started))
  /\ Len(s.started) - (Len(s.restarted) + Len(s.failed)) =
       (IF s.phase = "restart" THEN 1 ELSE 0)

Awaiting == { k \in DOMAIN reload.runs : reload.runs[k].phase \in {"connect", "restart"} }

\* C37: no two reload-and-restart sequences are under way at once, and PM2
\* is not disconnected while a sequence awaits a restart.
C37_SequencesDoNotOverlap ==
  /\ Cardinality(Awaiting) <= 1
  /\ (\E k \in DOMAIN reload.runs : reload.runs[k].phase = "restart") => reload.connected

\* C38: a keep-job-alive process that has exited with EXIT_CODE_ON_STOP had
\* seen the pid of the watched app as 0, and one that has exited after a
\* signal has exited with that signal's code: 130 for SIGINT, 143 for SIGTERM.
C38_ExitCodeTellsTheCause ==
  job.pc = "exited" =>
    /\ job.exitCode = <<job.EXIT_CODE_ON_STOP>> => job.sawStop
    /\ job.signals # <<>> =>
         \E i \in DOMAIN job.signals : job.exitCode = <<SignalCode(job.signals[i])>>

\* C39: a foreground nginx was spawned only after a validation of the
\* written config had succeeded; when nginx -t has failed the process has
\* exited with code 1 and no nginx was spawned; when the running nginx was
\* reloaded the process has exited with code 0 and spawned no nginx.
C39_NginxStartsAfterValidation ==
  /\ nginx.daemon # "none" => nginx.validated
  /\ nginx.test = "failed" => (nginx.exitCode = <<1>> /\ nginx.daemon = "none")
  /\ nginx.reloaded =>
       (nginx.exitCode = <<0>> /\ nginx.daemon = "none" /\ nginx.test = "none")

=============================================================================
